---- MODULE Spec2Model ----
(***************************************************************************)
(* Model of the in-process cache layer (service/cache) and of the          *)
(* conversation context layer (service/context) of SchemaRAG.              *)
(*                                                                         *)
(*   Spec      one LRUCache or TTLCache backend, called one operation at   *)
(*             a time.                                                     *)
(*   SpecMgr   CacheManager over such a backend, with its hit and miss     *)
(*             counters.                                                   *)
(*   SpecConc  two threads calling set/get/delete on one backend, no lock, *)
(*             one interpreter-atomic step at a time.                      *)
(*   SpecCount two threads calling CacheManager.get, whose counters are    *)
(*             read and written in separate steps.                         *)
(*   SpecCtx   ContextManager instances over the shared                    *)
(*             MemoryContextStorage.                                       *)
(*   SpecSweep    the same, with the clock passing by the sweep interval   *)
(*                and the expiry time.                                     *)
(*   SpecCtxLive  the same, with time passing forever and weak fairness.   *)
(*   SpecCtxRace  two threads inside ContextManager.add_conversation.      *)
(*   SpecReg      the CacheManager registry, get_instance and the calls    *)
(*                on the managers it returns.                              *)
(*   SpecRegRace  two threads inside CacheManager.get_instance.            *)
(*   SpecNorm     normalize_query applied twice to one query.              *)
(*   SpecKey      create_cache_key_from_dict and generate_hash_key applied *)
(*                to two mappings.                                         *)
(*   SpecCtxFail  ContextManager over a storage whose calls can raise.     *)
(*   SpecCtxKey   ContextManager called with user ids and tool names that   *)
(*                contain ':'.                                              *)
(*   SpecCtxAnon  ContextManager called without a user id.                  *)
(*   SpecCfg      the package import, CacheConfig and the managers it      *)
(*                initializes, also one constructed without a backend.     *)
(*   SpecCfgTable CacheConfig.initialize_caches applied to a table.        *)
(*   SpecWrap     a function wrapped by cacheable, called as time passes.  *)
(*   SpecWrapKey  the same function wrapped with a key prefix and a key     *)
(*                generator.                                                *)
(*   SpecWrapNamed  the same function wrapped under caches of the default   *)
(*                  configuration, called up to an hour apart.              *)
(*   SpecSql      SQLExecuterTool invoked by callers with their database    *)
(*                credentials.                                              *)
(*   SpecT2S      Text2SQLTool invoked by two users, with memory and cache  *)
(*                enabled.                                                  *)
(*                                                                         *)
(* Python's None is the empty tuple <<>>, a present value x is <<x>>.      *)
(***************************************************************************)
EXTENDS Integers, Sequences, FiniteSets, TLC

\* ------------------------------------------------------------------ bounds

\* largest max_size a backend is constructed with
MaxCap == 2
\* last value of the cache clock (time.time(), in seconds)
MaxTime == 1
\* most CacheManager.get calls between two reset_stats
MaxGets == 2
\* default_ttl the TTLCache is constructed with
DefaultTtlArg == 1

Keys == {"a", "b", "c"}
\* the keys used through the CacheManager
MgrKeys == {"a", "b"}
Values == {1, 2}

None == <<>>
Some(x) == <<x>>

\* the ttl arguments of set: omitted, negative, zero, positive
TTLs == {None, Some(-1), Some(0), Some(1)}
\* the ttl arguments of the calls made on the backend itself
BackendTTLs == {None, Some(0), Some(1)}

\* --------------------------------------------------------------- variables

VARIABLES
    now,          \* time.time()
    kind,         \* class of CacheManager._backend: "lru" | "ttl"
    max_size,     \* backend.max_size
    default_ttl,  \* TTLCache.default_ttl
    cache,        \* backend.cache: entries in dictionary order
    hit_count,    \* CacheManager.hit_count
    miss_count,   \* CacheManager.miss_count
    last,         \* the last call made on the cache and what it returned
    touched,      \* the stored keys, least recently got or set first
    gets,         \* CacheManager.get calls made since the last reset_stats
    hits,         \* those of them that returned a value
    pc,           \* per thread: the place its call on the backend has reached
    frame,        \* per thread: the arguments and locals of its call
    clock,        \* datetime.now(), in seconds
    ticks,        \* how many times the clock has advanced
    contexts,     \* MemoryContextStorage._contexts: context key -> UserContext
    last_cleanup, \* per ContextManager: _last_cleanup
    anon_count,   \* anonymous user ids generated so far
    ctx_last,     \* the last ContextManager call and what it returned
    added,        \* per context key: conversations added since its last reset
    live,         \* the same, also emptied when the sweep removes the row
    objects,      \* the UserContext objects created, by identity
    refs,         \* _contexts when callers overlap: context key -> object
    tpc,          \* per thread: the place its ContextManager call has reached
    tloc,         \* per thread: the locals of its ContextManager call
    calls,        \* add_conversation calls started so far
    done,         \* the calls that returned since the sweep last removed the row
    instances,    \* CacheManager._instances: name -> CacheManager object
    mgr_objs,     \* the CacheManager objects created, by identity
    backend_objs, \* the LRUCache objects created, by identity
    reg_last,     \* the last call made through the registry
    rpc,          \* per thread: the place its get_instance call has reached
    rloc,         \* per thread: the locals of that call and what it got
    norm_last,    \* the last query normalized, its normal form and that form's
    key_last,     \* the last two mappings keyed and their keys
    imported,     \* service/cache/__init__.py has been executed
    initialized,  \* CacheConfig._initialized
    cfg_calls,    \* calls that built a backend since the import
    cfg_last,     \* the last call made on CacheConfig or on a manager object
    wrap_last,    \* the last call of a function wrapped by cacheable
    db_service_cache, \* SQLExecuterTool._db_service_cache
    tool_last     \* the last invocation of a tool

cacheVars == <<now, kind, max_size, default_ttl, cache, hit_count, miss_count,
               last, touched, gets, hits>>
concVars == <<pc, frame>>
seqVars == <<hit_count, miss_count, last, touched, gets, hits>>
fixedVars == <<now, kind, max_size, default_ttl>>
ctxVars == <<clock, ticks, contexts, last_cleanup, anon_count, ctx_last, added, live>>
raceVars == <<objects, refs, tpc, tloc, calls, done>>
regVars == <<instances, mgr_objs, backend_objs, reg_last, rpc, rloc>>
utilVars == <<norm_last, key_last>>
cfgVars == <<imported, initialized, cfg_calls, cfg_last, wrap_last>>
toolVars == <<db_service_cache, tool_last>>

\* ------------------------------------------------- dictionary primitives

\* keys of a dictionary in iteration order
KeysOf(c) == {c[i].key : i \in 1..Len(c)}

\* key in self.cache
Has(c, key) == \E i \in 1..Len(c) : c[i].key = key

\* self.cache[key]
Entry(c, key) == c[CHOOSE i \in 1..Len(c) : c[i].key = key]

\* del self.cache[key]
Remove(c, key) == SelectSeq(c, LAMBDA e : e.key # key)

\* self.cache[key] = (value, expire_time): an existing key keeps its place,
\* a new key goes to the end
Store(c, key, value, exp) ==
    LET e == [key |-> key, value |-> value, expire_time |-> exp]
    IN  IF Has(c, key)
        THEN [i \in 1..Len(c) |-> IF c[i].key = key THEN e ELSE c[i]]
        ELSE Append(c, e)

\* OrderedDict.move_to_end(key)
MoveToEnd(c, key) == Append(Remove(c, key), Entry(c, key))

\* next(iter(self.cache))
FirstKey(c) == c[1].key

\* ------------------------------------------------------------- LRUCache

\* time.time() >= expire_time, for an entry that has an expiry
ExpiredOff(exp, t) == exp # None /\ t > exp[1]
Expired(exp, t) == exp # None /\ t >= exp[1]

\* LRUCache.delete / TTLCache.delete
BackendDelete(c, key) ==
    IF Has(c, key) THEN [cache |-> Remove(c, key), ret |-> TRUE]
    ELSE [cache |-> c, ret |-> FALSE]

LRUGetNoMove(c, key, t) ==
    IF ~Has(c, key) THEN [cache |-> c, ret |-> None]
    ELSE IF Expired(Entry(c, key).expire_time, t)
         THEN [cache |-> BackendDelete(c, key).cache, ret |-> None]
         ELSE [cache |-> c, ret |-> Some(Entry(c, key).value)]

\* LRUCache.get
LRUGet(c, key, t) ==
    IF ~Has(c, key) THEN [cache |-> c, ret |-> None]
    ELSE IF Expired(Entry(c, key).expire_time, t)
         THEN [cache |-> BackendDelete(c, key).cache, ret |-> None]
         ELSE [cache |-> MoveToEnd(c, key), ret |-> Some(Entry(c, key).value)]

LRUSetEvictAlways(c, key, value, ttl, t, cap) ==
    LET exp == IF ttl = None THEN None ELSE Some(t + ttl[1])
        c1 == IF Len(c) >= cap THEN BackendDelete(c, FirstKey(c)).cache ELSE c
    IN  MoveToEnd(Store(c1, key, value, exp), key)

LRUSetNoEvict(c, key, value, ttl, t, cap) ==
    LET exp == IF ttl = None THEN None ELSE Some(t + ttl[1])
    IN  MoveToEnd(Store(c, key, value, exp), key)

\* LRUCache.set
LRUSet(c, key, value, ttl, t, cap) ==
    LET exp == IF ttl = None THEN None ELSE Some(t + ttl[1])
    IN  IF Has(c, key)
        THEN MoveToEnd(Store(c, key, value, exp), key)
        ELSE LET c1 == IF Len(c) >= cap
                       THEN BackendDelete(c, FirstKey(c)).cache
                       ELSE c
             IN  MoveToEnd(Store(c1, key, value, exp), key)

\* ------------------------------------------------------------- TTLCache

TTLGetKeepExpired(c, key, t) ==
    IF ~Has(c, key) THEN [cache |-> c, ret |-> None]
    ELSE IF t >= Entry(c, key).expire_time[1]
         THEN [cache |-> c, ret |-> None]
         ELSE [cache |-> c, ret |-> Some(Entry(c, key).value)]

\* TTLCache.get
TTLGet(c, key, t) ==
    IF ~Has(c, key) THEN [cache |-> c, ret |-> None]
    ELSE IF t >= Entry(c, key).expire_time[1]
         THEN [cache |-> BackendDelete(c, key).cache, ret |-> None]
         ELSE [cache |-> c, ret |-> Some(Entry(c, key).value)]

\* the overflow branch deleting the first entry whether or not it is expired
TTLVictimFirst(c, t) == FirstKey(c)

\* the entry the overflow branch of TTLCache.set deletes: the first expired
\* one in iteration order, the first one when none is expired
TTLVictim(c, t) ==
    LET expired == {i \in 1..Len(c) : t >= c[i].expire_time[1]}
    IN  IF expired # {}
        THEN c[CHOOSE i \in expired : \A j \in expired : i <= j].key
        ELSE FirstKey(c)

\* set storing an entry without ttl as one that never expires within the
\* times followed
TTLSetNoDefault(c, key, value, ttl, t, cap, dflt) ==
    LET exp == IF ttl = None THEN Some(t + dflt + 1) ELSE Some(t + ttl[1])
        c1 == IF Len(c) >= cap /\ ~Has(c, key)
              THEN BackendDelete(c, TTLVictim(c, t)).cache
              ELSE c
    IN  Store(c1, key, value, exp)

\* TTLCache.set
TTLSet(c, key, value, ttl, t, cap, dflt) ==
    LET ttl1 == IF ttl = None THEN dflt ELSE ttl[1]
        exp == Some(t + ttl1)
        c1 == IF Len(c) >= cap /\ ~Has(c, key)
              THEN BackendDelete(c, TTLVictim(c, t)).cache
              ELSE c
    IN  Store(c1, key, value, exp)

\* ------------------------------------------------- backend dispatch

\* self._backend.get(key)
BackendGet(k, c, key, t) ==
    IF k = "lru" THEN LRUGet(c, key, t) ELSE TTLGet(c, key, t)

\* self._backend.set(key, value, ttl)
BackendSet(k, c, key, value, ttl, t, cap, dflt) ==
    IF k = "lru" THEN LRUSet(c, key, value, ttl, t, cap)
    ELSE TTLSet(c, key, value, ttl, t, cap, dflt)

\* expire_time as set computes it (memory.py 79 and 232-235)
ExpiryOf(k, ttl, t, dflt) ==
    IF ttl # None THEN Some(t + ttl[1])
    ELSE IF k = "lru" THEN None ELSE Some(t + dflt)

\* ------------------------------------------------- calls on the backend

\* a call and what the caller saw: its arguments, the time it was made at,
\* whether the key was stored, how many entries were stored and which key
\* came first in iteration order when it was made, and what it returned
Call(op, key, value, ttl, t, ret) ==
    [op |-> op, key |-> key, value |-> value, ttl |-> ttl, at |-> t,
     had |-> Has(cache, key), before |-> Len(cache),
     first |-> IF Len(cache) > 0 THEN FirstKey(cache) ELSE "-", ret |-> ret]

\* the keys in the order of their last successful get or set, after a call
\* that touched key (or no key: "-") and left the dictionary c
Touch(order, key, c) ==
    LET kept == SelectSeq(order, LAMBDA k : k # key /\ k \in KeysOf(c))
    IN  IF key \in KeysOf(c) THEN Append(kept, key) ELSE kept

\* backend.get(key)
Get(key) ==
    /\ LET r == BackendGet(kind, cache, key, now)
       IN  /\ cache' = r.cache
           /\ last' = Call("get", key, 0, None, now, r.ret)
           /\ touched' = IF r.ret # None THEN Touch(touched, key, r.cache)
                         ELSE Touch(touched, "-", r.cache)
    /\ UNCHANGED <<now, kind, max_size, default_ttl, hit_count, miss_count, gets, hits, concVars, ctxVars, raceVars, regVars, utilVars, toolVars,
                   cfgVars>>

\* backend.set(key, value, ttl)
Set(key, value, ttl) ==
    /\ cache' = BackendSet(kind, cache, key, value, ttl, now, max_size, default_ttl)
    /\ last' = Call("set", key, value, ttl, now, None)
    /\ touched' = Touch(touched, key, cache')
    /\ UNCHANGED <<now, kind, max_size, default_ttl, hit_count, miss_count, gets, hits, concVars, ctxVars, raceVars, regVars, utilVars, toolVars,
                   cfgVars>>

\* backend.delete(key)
Delete(key) ==
    /\ LET r == BackendDelete(cache, key)
       IN  /\ cache' = r.cache
           /\ last' = Call("delete", key, 0, None, now, Some(r.ret))
           /\ touched' = Touch(touched, "-", r.cache)
    /\ UNCHANGED <<now, kind, max_size, default_ttl, hit_count, miss_count, gets, hits, concVars, ctxVars, raceVars, regVars, utilVars, toolVars,
                   cfgVars>>

\* LRUCache.clear / TTLCache.clear
BackendClear(c) == <<>>

\* backend.clear()
Clear ==
    /\ cache' = BackendClear(cache)
    /\ last' = Call("clear", "-", 0, None, now, None)
    /\ touched' = <<>>
    /\ UNCHANGED <<now, kind, max_size, default_ttl, hit_count, miss_count, gets, hits, concVars, ctxVars, raceVars, regVars, utilVars, toolVars,
                   cfgVars>>

\* the clock advances between calls
Tick ==
    /\ now < MaxTime
    /\ now' = now + 1
    /\ UNCHANGED <<kind, max_size, default_ttl, cache, hit_count, miss_count,
                   last, touched, gets, hits, concVars, ctxVars, raceVars, regVars, utilVars, toolVars,
                   cfgVars>>

\* ------------------------------------- threads on one backend, no lock
\* LRUCache and TTLCache take no lock: a thread may be descheduled between
\* any two dictionary operations of a call.  Each action below is one such
\* operation (with the local computation that follows it).

Threads == {"t1", "t2"}
\* the keys and the ttl arguments the threads pass
ConcKeys == {"a", "b"}
ConcTTLs == {None, Some(0)}

IdleFrame ==
    [op |-> "-", key |-> "-", value |-> 0, exp |-> None, victim |-> "-",
     ret |-> None]

ConcInit ==
    /\ pc = [t \in Threads |-> "idle"]
    /\ frame = [t \in Threads |-> IdleFrame]

Goto(t, label) == pc' = [pc EXCEPT ![t] = label]

\* the call returns r to its caller
Return(t, r) ==
    /\ pc' = [pc EXCEPT ![t] = "idle"]
    /\ frame' = [frame EXCEPT ![t] = [IdleFrame EXCEPT !.ret = r]]

\* the call raises (KeyError, StopIteration) to its caller
Raise(t) ==
    /\ pc' = [pc EXCEPT ![t] = "raised"]
    /\ UNCHANGED frame

\* a thread enters set: expire_time is computed first (memory.py 79, 232-235)
ConcCallSet(t, key, value, ttl) ==
    /\ pc[t] = "idle"
    /\ frame' = [frame EXCEPT ![t] =
                    [op |-> "set", key |-> key, value |-> value,
                     exp |-> ExpiryOf(kind, ttl, now, default_ttl),
                     victim |-> "-", ret |-> None]]
    /\ Goto(t, IF kind = "lru" THEN "set_has" ELSE "ttl_len")
    /\ UNCHANGED <<cache, seqVars, fixedVars, ctxVars, raceVars, regVars, utilVars, toolVars,
                   cfgVars>>

\* a thread enters get
ConcCallGet(t, key) ==
    /\ pc[t] = "idle"
    /\ frame' = [frame EXCEPT ![t] =
                    [op |-> "get", key |-> key, value |-> 0, exp |-> None,
                     victim |-> "-", ret |-> None]]
    /\ Goto(t, "get_has")
    /\ UNCHANGED <<cache, seqVars, fixedVars, ctxVars, raceVars, regVars, utilVars, toolVars,
                   cfgVars>>

\* a thread enters delete
ConcCallDelete(t, key) ==
    /\ pc[t] = "idle"
    /\ frame' = [frame EXCEPT ![t] =
                    [op |-> "delete", key |-> key, value |-> 0, exp |-> None,
                     victim |-> key, ret |-> None]]
    /\ Goto(t, "del_has")
    /\ UNCHANGED <<cache, seqVars, fixedVars, ctxVars, raceVars, regVars, utilVars, toolVars,
                   cfgVars>>

\* LRUCache.set: if key in self.cache
LRUSetHas(t) ==
    /\ pc[t] = "set_has"
    /\ Goto(t, IF Has(cache, frame[t].key) THEN "store" ELSE "set_len")
    /\ UNCHANGED <<cache, frame, seqVars, fixedVars, ctxVars, raceVars, regVars, utilVars, toolVars,
                   cfgVars>>

\* LRUCache.set: if len(self.cache) >= self.max_size
LRUSetLen(t) ==
    /\ pc[t] = "set_len"
    /\ Goto(t, IF Len(cache) >= max_size THEN "first" ELSE "store")
    /\ UNCHANGED <<cache, frame, seqVars, fixedVars, ctxVars, raceVars, regVars, utilVars, toolVars,
                   cfgVars>>

\* TTLCache.set: len(self.cache) >= self.max_size
TTLSetLen(t) ==
    /\ pc[t] = "ttl_len"
    /\ Goto(t, IF Len(cache) >= max_size THEN "ttl_has" ELSE "store")
    /\ UNCHANGED <<cache, frame, seqVars, fixedVars, ctxVars, raceVars, regVars, utilVars, toolVars,
                   cfgVars>>

\* TTLCache.set: and key not in self.cache
TTLSetHas(t) ==
    /\ pc[t] = "ttl_has"
    /\ Goto(t, IF ~Has(cache, frame[t].key) THEN "ttl_scan" ELSE "store")
    /\ UNCHANGED <<cache, frame, seqVars, fixedVars, ctxVars, raceVars, regVars, utilVars, toolVars,
                   cfgVars>>

\* TTLCache.set: list(self.cache.items()) and the scan of that copy for the
\* first expired entry
TTLSetScan(t) ==
    /\ pc[t] = "ttl_scan"
    /\ LET expired == {i \in 1..Len(cache) : now >= cache[i].expire_time[1]}
       IN  IF expired # {}
           THEN /\ frame' = [frame EXCEPT ![t].victim = TTLVictim(cache, now)]
                /\ Goto(t, "del_has")
           ELSE /\ Goto(t, "first")
                /\ UNCHANGED frame
    /\ UNCHANGED <<cache, seqVars, fixedVars, ctxVars, raceVars, regVars, utilVars, toolVars,
                   cfgVars>>

\* next(iter(self.cache)): StopIteration on an empty dictionary
ConcFirstKey(t) ==
    /\ pc[t] = "first"
    /\ IF cache = <<>>
       THEN Raise(t)
       ELSE /\ frame' = [frame EXCEPT ![t].victim = FirstKey(cache)]
            /\ Goto(t, "del_has")
    /\ UNCHANGED <<cache, seqVars, fixedVars, ctxVars, raceVars, regVars, utilVars, toolVars,
                   cfgVars>>

\* delete: if key in self.cache
ConcDeleteHas(t) ==
    /\ pc[t] = "del_has"
    /\ IF Has(cache, frame[t].victim)
       THEN Goto(t, "del") /\ UNCHANGED frame
       ELSE IF frame[t].op = "get" THEN Return(t, None)
            ELSE IF frame[t].op = "delete" THEN Return(t, Some(FALSE))
            ELSE Goto(t, "store") /\ UNCHANGED frame
    /\ UNCHANGED <<cache, seqVars, fixedVars, ctxVars, raceVars, regVars, utilVars, toolVars,
                   cfgVars>>

\* delete: del self.cache[key], KeyError when the key is gone
ConcDeleteDel(t) ==
    /\ pc[t] = "del"
    /\ IF Has(cache, frame[t].victim)
       THEN /\ cache' = Remove(cache, frame[t].victim)
            /\ IF frame[t].op = "get" THEN Return(t, None)
               ELSE IF frame[t].op = "delete" THEN Return(t, Some(TRUE))
               ELSE Goto(t, "store") /\ UNCHANGED frame
       ELSE Raise(t) /\ UNCHANGED cache
    /\ UNCHANGED <<seqVars, fixedVars, ctxVars, raceVars, regVars, utilVars, toolVars,
                   cfgVars>>

\* self.cache[key] = (value, expire_time)
ConcStore(t) ==
    /\ pc[t] = "store"
    /\ cache' = Store(cache, frame[t].key, frame[t].value, frame[t].exp)
    /\ IF kind = "lru" THEN Goto(t, "move") /\ UNCHANGED frame
       ELSE Return(t, None)
    /\ UNCHANGED <<seqVars, fixedVars, ctxVars, raceVars, regVars, utilVars, toolVars,
                   cfgVars>>

\* self.cache.move_to_end(key), KeyError when the key is gone
ConcMoveToEnd(t) ==
    /\ pc[t] = "move"
    /\ IF Has(cache, frame[t].key)
       THEN /\ cache' = MoveToEnd(cache, frame[t].key)
            /\ Return(t, IF frame[t].op = "get" THEN Some(frame[t].value)
                         ELSE None)
       ELSE Raise(t) /\ UNCHANGED cache
    /\ UNCHANGED <<seqVars, fixedVars, ctxVars, raceVars, regVars, utilVars, toolVars,
                   cfgVars>>

\* get: if key not in self.cache
ConcGetHas(t) ==
    /\ pc[t] = "get_has"
    /\ IF Has(cache, frame[t].key)
       THEN Goto(t, "get_read") /\ UNCHANGED frame
       ELSE Return(t, None)
    /\ UNCHANGED <<cache, seqVars, fixedVars, ctxVars, raceVars, regVars, utilVars, toolVars,
                   cfgVars>>

\* get: value, expire_time = self.cache[key] (KeyError when the key is
\* gone) and the expiry test
ConcGetRead(t) ==
    /\ pc[t] = "get_read"
    /\ IF ~Has(cache, frame[t].key)
       THEN Raise(t)
       ELSE LET e == Entry(cache, frame[t].key)
            IN  IF Expired(e.expire_time, now)
                THEN /\ frame' = [frame EXCEPT ![t].victim = frame[t].key]
                     /\ Goto(t, "del_has")
                ELSE IF kind = "lru"
                     THEN /\ frame' = [frame EXCEPT ![t].value = e.value]
                          /\ Goto(t, "move")
                     ELSE Return(t, Some(e.value))
    /\ UNCHANGED <<cache, seqVars, fixedVars, ctxVars, raceVars, regVars, utilVars, toolVars,
                   cfgVars>>

ConcNext ==
    \E t \in Threads :
        \/ \E key \in ConcKeys, ttl \in ConcTTLs : ConcCallSet(t, key, 1, ttl)
        \/ \E key \in ConcKeys : ConcCallGet(t, key)
        \/ \E key \in ConcKeys : ConcCallDelete(t, key)
        \/ LRUSetHas(t)
        \/ LRUSetLen(t)
        \/ TTLSetLen(t)
        \/ TTLSetHas(t)
        \/ TTLSetScan(t)
        \/ ConcFirstKey(t)
        \/ ConcDeleteHas(t)
        \/ ConcDeleteDel(t)
        \/ ConcStore(t)
        \/ ConcMoveToEnd(t)
        \/ ConcGetHas(t)
        \/ ConcGetRead(t)

\* ------------------------------------------------------ service/context
\* Strings that are joined or compared by character are tuples of
\* characters.  UserContext.created_at and Conversation.timestamp are written
\* once, at construction, and never read by the operations below; they are
\* left out.

\* most conversations added for one context key between two resets
MaxConvs == 2
\* most advances of the clock
MaxTicks == 1
\* most anonymous user ids generated
MaxAnon == 2

CLEANUP_INTERVAL == 3600
DEFAULT_EXPIRY_TIME == 24 * 3600

Managers == {"m1"}
UserA == <<"A">>
UserB == <<"B">>
\* the user_id arguments of the calls: two users
UserArgs == {Some(UserA), Some(UserB)}
ToolNames == {<<"t">>}
Queries == {"q1", "q2"}
Windows == {-1, 0, 1, 2}
\* the clock advances by exactly a cleanup interval (a sweep is not yet due)
\* or by just over the expiry time
TickSteps == {CLEANUP_INTERVAL, DEFAULT_EXPIRY_TIME + 1}

Min(a, b) == IF a <= b THEN a ELSE b
Max(a, b) == IF a >= b THEN a ELSE b

\* a Python slice s[i:]
SliceFrom(s, i) ==
    LET start == IF i < 0 THEN Max(Len(s) + i, 0) ELSE Min(i, Len(s))
    IN  SubSeq(s, start + 1, Len(s))

ContextKeySharedByTool(user_id, tool_name) == <<":">> \o tool_name

\* UserContext.context_key, and ContextManager.get_context's context_key
ContextKey(user_id, tool_name) == user_id \o <<":">> \o tool_name

\* Conversation(query, sql, metadata or {}); the SQL passed is the one
\* generated for the query, no metadata is passed
Conversation(query) ==
    [query |-> query, sql |-> <<"sql", query>>, metadata |-> <<>>]

\* Conversation.to_dict
ToDict(conv) ==
    [query |-> conv.query, sql |-> conv.sql, metadata |-> conv.metadata]

\* UserContext(user_id, tool_name) created at time t
NewUserContext(user_id, tool_name, t) ==
    [user_id |-> user_id, tool_name |-> tool_name, conversations |-> <<>>,
     last_access |-> t]

AddToFront(ctx, conv, t) ==
    [ctx EXCEPT !.conversations = <<conv>> \o @, !.last_access = t]

\* UserContext.add_conversation
AddTo(ctx, conv, t) ==
    [ctx EXCEPT !.conversations = Append(@, conv), !.last_access = t]

RecentConversationsFirst(convs, window_size) ==
    SubSeq(convs, 1, Min(window_size, Len(convs)))

\* UserContext.get_recent_conversations
RecentConversations(convs, window_size) ==
    SliceFrom(convs, -Min(window_size, Len(convs)))

ClearConversationsKeepLast(ctx, t) ==
    [ctx EXCEPT !.conversations = SliceFrom(@, 1), !.last_access = t]

\* UserContext.clear_conversations
ClearConversations(ctx, t) ==
    [ctx EXCEPT !.conversations = <<>>, !.last_access = t]

\* MemoryContextStorage.save_context
SaveContext(cs, ctx) ==
    LET key == ContextKey(ctx.user_id, ctx.tool_name)
    IN  [k \in DOMAIN cs \cup {key} |-> IF k = key THEN ctx ELSE cs[k]]

ExpiredKeysAtCutoff(cs, max_age_seconds, t) ==
    {k \in DOMAIN cs : cs[k].last_access <= t - max_age_seconds}

\* the keys MemoryContextStorage.cleanup_expired deletes at time t
ExpiredKeys(cs, max_age_seconds, t) ==
    {k \in DOMAIN cs : cs[k].last_access < t - max_age_seconds}

CleanupExpiredNothing(cs, max_age_seconds, t) == cs

\* MemoryContextStorage.cleanup_expired
CleanupExpired(cs, max_age_seconds, t) ==
    [k \in DOMAIN cs \ ExpiredKeys(cs, max_age_seconds, t) |-> cs[k]]

\* ContextManager._auto_cleanup: whether the sweep is due
CleanupDue(m, t) == t - last_cleanup[m] > CLEANUP_INTERVAL

\* ContextManager._auto_cleanup: the storage it leaves
AutoCleanup(m, cs, t) ==
    IF CleanupDue(m, t) THEN CleanupExpired(cs, DEFAULT_EXPIRY_TIME, t) ELSE cs

\* ContextManager._get_user_id: the id given, or a new anonymous one
AnonId(n) == <<"anon_", ToString(n)>>
\* "if user_id:" is false for None and for the empty string
Omitted(user_arg) == user_arg = None \/ user_arg[1] = <<>>

GetUserIdFirstAnon(user_arg) ==
    IF ~Omitted(user_arg) THEN user_arg[1] ELSE AnonId(1)

GetUserId(user_arg) ==
    IF ~Omitted(user_arg) THEN user_arg[1] ELSE AnonId(anon_count + 1)

GetContextNoRefresh(m, user_id, tool_name, t) ==
    LET cs == AutoCleanup(m, contexts, t)
        key == ContextKey(user_id, tool_name)
        ctx == IF key \in DOMAIN cs
               THEN cs[key]
               ELSE NewUserContext(user_id, tool_name, t)
    IN  [contexts |-> SaveContext(cs, ctx), ctx |-> ctx]

\* ContextManager.get_context: the sweep, then MemoryContextStorage.get_context
\* (which refreshes last_access) or the creation and saving of a new context.
\* Gives the storage it leaves and the context it returns.
GetContext(m, user_id, tool_name, t) ==
    LET cs == AutoCleanup(m, contexts, t)
        key == ContextKey(user_id, tool_name)
        ctx == IF key \in DOMAIN cs
               THEN [cs[key] EXCEPT !.last_access = t]
               ELSE NewUserContext(user_id, tool_name, t)
    IN  [contexts |-> SaveContext(cs, ctx), ctx |-> ctx]

\* what every call does besides its own work: the sweep's timestamp, the
\* anonymous id it used up, and the record of the call
CtxCall(m, op, user_arg, tool_name, window, ret) ==
    LET key == ContextKey(GetUserId(user_arg), tool_name)
    IN  /\ last_cleanup' = IF CleanupDue(m, clock)
                           THEN [last_cleanup EXCEPT ![m] = clock]
                           ELSE last_cleanup
        /\ anon_count' = IF Omitted(user_arg) THEN anon_count + 1 ELSE anon_count
        /\ ctx_last' = [op |-> op, mgr |-> m, key |-> key, window |-> window,
                        had |-> key \in DOMAIN contexts, ret |-> ret,
                        user_id |-> GetUserId(user_arg),
                        tool_name |-> tool_name]

\* the record rec of conversations per key, kept for the keys of storage cs,
\* with convs recorded for key
Recorded(rec, cs, key, convs) ==
    [k \in DOMAIN cs |-> IF k = key THEN convs ELSE rec[k]]

AnonFree(user_arg) == Omitted(user_arg) => anon_count < MaxAnon

\* what add_conversation returns: it has no return statement, on either path
AddReturns == None

\* ContextManager.add_conversation
AddConversation(m, user_arg, tool_name, query) ==
    LET user_id == GetUserId(user_arg)
        key == ContextKey(user_id, tool_name)
        g == GetContext(m, user_id, tool_name, clock)
        ctx == AddTo(g.ctx, Conversation(query), clock)
    IN  /\ AnonFree(user_arg)
        /\ key \in DOMAIN added => Len(added[key]) < MaxConvs
        /\ contexts' = SaveContext(g.contexts, ctx)
        /\ CtxCall(m, "add", user_arg, tool_name, 0, AddReturns)
        /\ added' = [k \in DOMAIN added \cup {key} |->
                        IF k = key
                        THEN Append(IF key \in DOMAIN added THEN added[key] ELSE <<>>,
                                    Conversation(query))
                        ELSE added[k]]
        /\ live' = Recorded(live, contexts', key,
                        Append(IF key \in DOMAIN AutoCleanup(m, contexts, clock)
                               THEN live[key] ELSE <<>>,
                               Conversation(query)))
        /\ UNCHANGED <<clock, ticks, cacheVars, concVars, raceVars, regVars, utilVars, toolVars,
                   cfgVars>>

\* ContextManager.get_conversation_history
GetConversationHistory(m, user_arg, tool_name, window_size) ==
    LET user_id == GetUserId(user_arg)
        key == ContextKey(user_id, tool_name)
        g == GetContext(m, user_id, tool_name, clock)
        recent == RecentConversations(g.ctx.conversations, window_size)
    IN  /\ AnonFree(user_arg)
        /\ contexts' = g.contexts
        /\ CtxCall(m, "history", user_arg, tool_name, window_size,
                   [i \in 1..Len(recent) |-> ToDict(recent[i])])
        /\ added' = [k \in DOMAIN added \cup {key} |->
                        IF k \in DOMAIN added THEN added[k] ELSE <<>>]
        /\ live' = Recorded(live, contexts', key,
                        IF key \in DOMAIN AutoCleanup(m, contexts, clock)
                        THEN live[key] ELSE <<>>)
        /\ UNCHANGED <<clock, ticks, cacheVars, concVars, raceVars, regVars, utilVars, toolVars,
                   cfgVars>>

\* ContextManager.get_context called by a tool
CallGetContext(m, user_arg, tool_name) ==
    LET user_id == GetUserId(user_arg)
        key == ContextKey(user_id, tool_name)
        g == GetContext(m, user_id, tool_name, clock)
    IN  /\ AnonFree(user_arg)
        /\ contexts' = g.contexts
        /\ CtxCall(m, "get", user_arg, tool_name, 0, <<g.ctx>>)
        /\ added' = [k \in DOMAIN added \cup {key} |->
                        IF k \in DOMAIN added THEN added[k] ELSE <<>>]
        /\ live' = Recorded(live, contexts', key,
                        IF key \in DOMAIN AutoCleanup(m, contexts, clock)
                        THEN live[key] ELSE <<>>)
        /\ UNCHANGED <<clock, ticks, cacheVars, concVars, raceVars, regVars, utilVars, toolVars,
                   cfgVars>>

\* ContextManager.reset_memory
ResetMemory(m, user_arg, tool_name) ==
    LET user_id == GetUserId(user_arg)
        key == ContextKey(user_id, tool_name)
        g == GetContext(m, user_id, tool_name, clock)
        ctx == ClearConversations(g.ctx, clock)
    IN  /\ AnonFree(user_arg)
        /\ contexts' = SaveContext(g.contexts, ctx)
        /\ CtxCall(m, "reset", user_arg, tool_name, 0, <<TRUE>>)
        /\ added' = [k \in DOMAIN added \cup {key} |->
                        IF k = key THEN <<>> ELSE added[k]]
        /\ live' = Recorded(live, contexts', key, <<>>)
        /\ UNCHANGED <<clock, ticks, cacheVars, concVars, raceVars, regVars, utilVars, toolVars,
                   cfgVars>>

\* ContextManager(): a tool instance constructs its manager over the shared
\* storage
NewManager(m) ==
    /\ last_cleanup' = [last_cleanup EXCEPT ![m] = clock]
    /\ ctx_last' = [op |-> "construct", mgr |-> m, key |-> <<>>, window |-> 0,
                    had |-> FALSE, ret |-> <<>>,
                   user_id |-> <<>>, tool_name |-> <<>>]
    /\ UNCHANGED <<clock, ticks, contexts, anon_count, added, live, cacheVars, concVars, raceVars, regVars, utilVars, toolVars,
                   cfgVars>>

\* time passes between calls
CtxTick(d) ==
    /\ ticks < MaxTicks
    /\ ticks' = ticks + 1
    /\ clock' = clock + d
    /\ UNCHANGED <<contexts, last_cleanup, anon_count, ctx_last, added, live,
                   cacheVars, concVars, raceVars, regVars, utilVars, toolVars,
                   cfgVars>>

\* the shared MemoryContextStorage() and the managers, constructed at time 0
CtxInit ==
    /\ clock = 0
    /\ ticks = 0
    /\ contexts = <<>>
    /\ last_cleanup = [m \in Managers |-> 0]
    /\ anon_count = 0
    /\ ctx_last = [op |-> "init", mgr |-> "-", key |-> <<>>, window |-> 0,
                   had |-> FALSE, ret |-> <<>>,
                   user_id |-> <<>>, tool_name |-> <<>>]
    /\ added = <<>>
    /\ live = <<>>

CtxNext ==
    \/ \E m \in Managers, u \in UserArgs, tn \in ToolNames, q \in Queries :
            AddConversation(m, u, tn, q)
    \/ \E m \in Managers, u \in UserArgs, tn \in ToolNames, w \in Windows :
            GetConversationHistory(m, u, tn, w)
    \/ \E m \in Managers, u \in UserArgs, tn \in ToolNames :
            ResetMemory(m, u, tn)
    \/ \E m \in Managers, u \in UserArgs, tn \in ToolNames :
            CallGetContext(m, u, tn)
    \/ \E m \in Managers : NewManager(m)
    \/ \E d \in TickSteps : CtxTick(d)

\* user ids and tool names that contain the separator of the context key
KeyUserArgs == {Some(<<"A">>), Some(<<"A", ":", "x">>)}
KeyToolNames == {<<"t">>, <<"x", ":", "t">>}

CtxKeyNext ==
    \/ \E m \in Managers, u \in KeyUserArgs, tn \in KeyToolNames, q \in Queries :
            AddConversation(m, u, tn, q)
    \/ \E m \in Managers, u \in KeyUserArgs, tn \in KeyToolNames :
            GetConversationHistory(m, u, tn, MaxConvs)
    \/ \E m \in Managers, u \in KeyUserArgs, tn \in KeyToolNames :
            ResetMemory(m, u, tn)

\* callers that omit the user id, pass an empty one, or pass A's
AnonArgs == {None, Some(<<>>), Some(UserA)}

CtxAnonNext ==
    \/ \E m \in Managers, u \in AnonArgs, tn \in ToolNames :
            AddConversation(m, u, tn, "q1")
    \/ \E m \in Managers, u \in AnonArgs, tn \in ToolNames :
            GetConversationHistory(m, u, tn, MaxConvs)
    \/ \E m \in Managers, u \in AnonArgs, tn \in ToolNames :
            ResetMemory(m, u, tn)
    \/ \E m \in Managers, u \in AnonArgs, tn \in ToolNames :
            CallGetContext(m, u, tn)
    \/ \E d \in TickSteps : CtxTick(d)

\* ------------------------------------------- a storage call that raises
\*
\* The storage is MemoryContextStorage, one of whose calls raises instead of
\* acting: storage.get_context ("get"), the save_context of a context just
\* created ("create"), or the save_context that ends add_conversation and
\* reset_memory ("save"). The context the manager holds is the object the
\* storage holds, so what was done to it before the save stays done.

StorageCalls == {"get", "create", "save"}

\* the storage after the sweep when get or create raised
AfterFailedGet(m) ==
    /\ contexts' = AutoCleanup(m, contexts, clock)
    /\ added' = added
    /\ live' = [k \in DOMAIN contexts' |-> live[k]]

CanFail(m, user_arg, tool_name, at) ==
    /\ AnonFree(user_arg)
    /\ at = "create" =>
            ContextKey(GetUserId(user_arg), tool_name)
                \notin DOMAIN AutoCleanup(m, contexts, clock)

\* ContextManager.add_conversation, the storage raising: except Exception
AddConversationFailing(m, user_arg, tool_name, query, at) ==
    LET user_id == GetUserId(user_arg)
        key == ContextKey(user_id, tool_name)
        g == GetContext(m, user_id, tool_name, clock)
        ctx == AddTo(g.ctx, Conversation(query), clock)
    IN  /\ CanFail(m, user_arg, tool_name, at)
        /\ IF at = "save"
           THEN /\ key \in DOMAIN added => Len(added[key]) < MaxConvs
                /\ contexts' = SaveContext(g.contexts, ctx)
                /\ added' = [k \in DOMAIN added \cup {key} |->
                                IF k = key
                                THEN Append(IF key \in DOMAIN added
                                            THEN added[key] ELSE <<>>,
                                            Conversation(query))
                                ELSE added[k]]
                /\ live' = Recorded(live, contexts', key,
                                Append(IF key \in DOMAIN AutoCleanup(m, contexts, clock)
                                       THEN live[key] ELSE <<>>,
                                       Conversation(query)))
           ELSE AfterFailedGet(m)
        /\ CtxCall(m, "add_failed", user_arg, tool_name, 0, AddReturns)
        /\ UNCHANGED <<clock, ticks, cacheVars, concVars, raceVars, regVars,
                       utilVars, toolVars, cfgVars>>

\* ContextManager.get_conversation_history, the storage raising: return []
GetConversationHistoryFailing(m, user_arg, tool_name, window_size, at) ==
    /\ at # "save"
    /\ CanFail(m, user_arg, tool_name, at)
    /\ AfterFailedGet(m)
    /\ CtxCall(m, "history_failed", user_arg, tool_name, window_size, <<>>)
    /\ UNCHANGED <<clock, ticks, cacheVars, concVars, raceVars, regVars,
                   utilVars, toolVars, cfgVars>>

\* ContextManager.reset_memory, the storage raising: return False
ResetMemoryFailing(m, user_arg, tool_name, at) ==
    LET user_id == GetUserId(user_arg)
        key == ContextKey(user_id, tool_name)
        g == GetContext(m, user_id, tool_name, clock)
        ctx == ClearConversations(g.ctx, clock)
    IN  /\ CanFail(m, user_arg, tool_name, at)
        /\ IF at = "save"
           THEN /\ contexts' = SaveContext(g.contexts, ctx)
                /\ added' = [k \in DOMAIN added \cup {key} |->
                                IF k = key THEN <<>> ELSE added[k]]
                /\ live' = Recorded(live, contexts', key, <<>>)
           ELSE AfterFailedGet(m)
        /\ CtxCall(m, "reset_failed", user_arg, tool_name, 0, <<FALSE>>)
        /\ UNCHANGED <<clock, ticks, cacheVars, concVars, raceVars, regVars,
                       utilVars, toolVars, cfgVars>>

CtxFailNext ==
    \/ \E m \in Managers, u \in UserArgs, tn \in ToolNames :
            AddConversation(m, u, tn, "q1")
    \/ \E m \in Managers, u \in UserArgs, tn \in ToolNames :
            GetConversationHistory(m, u, tn, MaxConvs)
    \/ \E m \in Managers, u \in UserArgs, tn \in ToolNames :
            ResetMemory(m, u, tn)
    \/ \E m \in Managers, u \in UserArgs, tn \in ToolNames, at \in StorageCalls :
            AddConversationFailing(m, u, tn, "q1", at)
    \/ \E m \in Managers, u \in UserArgs, tn \in ToolNames, at \in StorageCalls :
            GetConversationHistoryFailing(m, u, tn, MaxConvs, at)
    \/ \E m \in Managers, u \in UserArgs, tn \in ToolNames, at \in StorageCalls :
            ResetMemoryFailing(m, u, tn, at)
    \/ \E d \in TickSteps : CtxTick(d)

\* ---------------------------------------------------------- CacheManager

\* the counters after a get whose backend lookup returned r
CountBoth(r, h, m) == [hit |-> h + 1, miss |-> m + 1]
Count(r, h, m) ==
    IF r # None THEN [hit |-> h + 1, miss |-> m]
    ELSE [hit |-> h, miss |-> m + 1]

\* CacheManager.get
MgrGet(key) ==
    /\ hit_count + miss_count < MaxGets
    /\ LET r == BackendGet(kind, cache, key, now)
           n == Count(r.ret, hit_count, miss_count)
       IN  /\ cache' = r.cache
           /\ hit_count' = n.hit
           /\ miss_count' = n.miss
           /\ last' = Call("get", key, 0, None, now, r.ret)
           /\ touched' = IF r.ret # None THEN Touch(touched, key, r.cache)
                         ELSE Touch(touched, "-", r.cache)
           /\ gets' = gets + 1
           /\ hits' = IF r.ret # None THEN hits + 1 ELSE hits
    /\ UNCHANGED <<now, kind, max_size, default_ttl, concVars, ctxVars, raceVars, regVars, utilVars, toolVars,
                   cfgVars>>

\* CacheManager.set
MgrSet(key, value, ttl) ==
    /\ cache' = BackendSet(kind, cache, key, value, ttl, now, max_size, default_ttl)
    /\ last' = Call("set", key, value, ttl, now, None)
    /\ touched' = Touch(touched, key, cache')
    /\ UNCHANGED <<now, kind, max_size, default_ttl, hit_count, miss_count, gets, hits, concVars, ctxVars, raceVars, regVars, utilVars, toolVars,
                   cfgVars>>

\* CacheManager.delete
MgrDelete(key) ==
    /\ LET r == BackendDelete(cache, key)
       IN  /\ cache' = r.cache
           /\ last' = Call("delete", key, 0, None, now, Some(r.ret))
           /\ touched' = Touch(touched, "-", r.cache)
    /\ UNCHANGED <<now, kind, max_size, default_ttl, hit_count, miss_count, gets, hits, concVars, ctxVars, raceVars, regVars, utilVars, toolVars,
                   cfgVars>>

\* CacheManager.clear
MgrClear ==
    /\ cache' = BackendClear(cache)
    /\ last' = Call("clear", "-", 0, None, now, None)
    /\ touched' = <<>>
    /\ UNCHANGED <<now, kind, max_size, default_ttl, hit_count, miss_count, gets, hits, concVars, ctxVars, raceVars, regVars, utilVars, toolVars,
                   cfgVars>>

\* CacheManager.reset_stats
ResetStats ==
    /\ hit_count' = 0
    /\ miss_count' = 0
    /\ last' = Call("reset_stats", "-", 0, None, now, None)
    /\ gets' = 0
    /\ hits' = 0
    /\ UNCHANGED <<now, kind, max_size, default_ttl, cache, touched, concVars, ctxVars, raceVars, regVars, utilVars, toolVars,
                   cfgVars>>

\* CacheManager.get_stats: the manager's own fields
GetStats ==
    [hit_count |-> hit_count, miss_count |-> miss_count,
     total_requests |-> hit_count + miss_count]

\* CacheManager(name) followed by set_backend(LRUCache(max_size)) or
\* set_backend(TTLCache(max_size, default_ttl))
CacheInit ==
    /\ now = 0
    /\ kind \in {"lru", "ttl"}
    /\ max_size \in 1..MaxCap
    /\ default_ttl = DefaultTtlArg
    /\ cache = <<>>
    /\ hit_count = 0
    /\ miss_count = 0
    /\ last = [op |-> "init", key |-> "-", value |-> 0, ttl |-> None, at |-> 0,
               had |-> FALSE, before |-> 0, first |-> "-", ret |-> None]
    /\ touched = <<>>
    /\ gets = 0
    /\ hits = 0

\* calls on the backend itself
CacheNext ==
    \/ \E key \in Keys : Get(key)
    \/ \E key \in Keys, value \in Values, ttl \in BackendTTLs : Set(key, value, ttl)
    \/ \E key \in Keys : Delete(key)
    \/ Clear
    \/ Tick

\* calls through the CacheManager
MgrNext ==
    \/ \E key \in MgrKeys : MgrGet(key)
    \/ \E key \in MgrKeys, value \in Values, ttl \in TTLs : MgrSet(key, value, ttl)
    \/ \E key \in MgrKeys : MgrDelete(key)
    \/ MgrClear
    \/ ResetStats
    \/ Tick

\* ------------------------------- threads in CacheManager.get, no lock
\* CacheManager takes no lock either. "self.hit_count += 1" reads the
\* attribute, adds one and writes the attribute: the read and the write are
\* two steps of a thread, and another thread may run between them. The
\* backend's get is taken as one step here.

\* a thread enters CacheManager.get: result = self._backend.get(key)
CountCallGet(t, key) ==
    /\ pc[t] = "idle"
    /\ gets < MaxGets
    /\ gets' = gets + 1
    /\ LET r == BackendGet(kind, cache, key, now)
       IN  /\ cache' = r.cache
           /\ frame' = [frame EXCEPT ![t] =
                           [IdleFrame EXCEPT !.op = "get", !.key = key,
                                             !.ret = r.ret]]
    /\ Goto(t, "count_read")
    /\ UNCHANGED <<hit_count, miss_count, last, touched, hits, fixedVars,
                   ctxVars, raceVars, regVars, utilVars, toolVars, cfgVars>>

\* the read of self.hit_count or self.miss_count
CountRead(t) ==
    /\ pc[t] = "count_read"
    /\ frame' = [frame EXCEPT ![t].value =
                    IF frame[t].ret # None THEN hit_count ELSE miss_count]
    /\ Goto(t, "count_write")
    /\ UNCHANGED <<cache, seqVars, fixedVars, ctxVars, raceVars, regVars,
                   utilVars, toolVars, cfgVars>>

\* the write of the value read, plus one; then return result
CountWrite(t) ==
    /\ pc[t] = "count_write"
    /\ IF frame[t].ret # None
       THEN hit_count' = frame[t].value + 1 /\ UNCHANGED miss_count
       ELSE miss_count' = frame[t].value + 1 /\ UNCHANGED hit_count
    /\ Return(t, frame[t].ret)
    /\ UNCHANGED <<cache, last, touched, gets, hits, fixedVars, ctxVars,
                   raceVars, regVars, utilVars, toolVars, cfgVars>>

CountNext ==
    \/ \E t \in Threads, key \in ConcKeys : CountCallGet(t, key)
    \/ \E t \in Threads : CountRead(t)
    \/ \E t \in Threads : CountWrite(t)
    \/ \E key \in ConcKeys : MgrSet(key, 1, None)

\* ------------------------------------------------ the sweep, call by call

\* most advances of the clock where the sweep is followed
MaxSweepTicks == 2

\* the clock advances by exactly a cleanup interval or exactly the expiry time
SweepSteps == {CLEANUP_INTERVAL, DEFAULT_EXPIRY_TIME}

\* MemoryContextStorage.cleanup_expired(DEFAULT_EXPIRY_TIME) called on the
\* shared storage; it returns the number of rows it deleted
CleanupExpiredCall ==
    /\ contexts' = CleanupExpired(contexts, DEFAULT_EXPIRY_TIME, clock)
    /\ ctx_last' = [op |-> "sweep", mgr |-> "-", key |-> <<>>, window |-> 0,
                    had |-> FALSE, at |-> clock,
                    ret |-> <<Cardinality(ExpiredKeys(contexts, DEFAULT_EXPIRY_TIME, clock))>>,
                   user_id |-> <<>>, tool_name |-> <<>>]
    /\ live' = [k \in DOMAIN contexts' |-> live[k]]
    /\ UNCHANGED <<clock, ticks, last_cleanup, anon_count, added, cacheVars,
                   concVars, raceVars, regVars, utilVars, toolVars, cfgVars>>

SweepTick(d) ==
    /\ ticks < MaxSweepTicks
    /\ ticks' = ticks + 1
    /\ clock' = clock + d
    /\ UNCHANGED <<contexts, last_cleanup, anon_count, ctx_last, added, live,
                   cacheVars, concVars, raceVars, regVars, utilVars, toolVars,
                   cfgVars>>

SweepNext ==
    \/ \E m \in Managers, u \in UserArgs, tn \in ToolNames :
            AddConversation(m, u, tn, "q1")
    \/ \E m \in Managers, u \in UserArgs, tn \in ToolNames :
            CallGetContext(m, u, tn)
    \/ \E m \in Managers : NewManager(m)
    \/ CleanupExpiredCall
    \/ \E d \in SweepSteps : SweepTick(d)

\* ------------------------------------------- the sweep, as time goes on
\*
\* The code looks only at differences of times (now - _last_cleanup,
\* last_access against now - max_age). Here the clock reading stays where it
\* is and every stored time moves back by the time that passes, which is the
\* same for those comparisons; times further back than LiveHorizon are all
\* older than both the cleanup interval and the expiry time and are kept at
\* LiveHorizon, so time can pass without end.

LiveStep == DEFAULT_EXPIRY_TIME + 1
LiveHorizon == DEFAULT_EXPIRY_TIME + 1

\* a stored time after d more seconds have passed
Back(time, d) == Max(time - d, clock - LiveHorizon)

LiveTick(d) ==
    /\ contexts' = [k \in DOMAIN contexts |->
                        [contexts[k] EXCEPT !.last_access = Back(@, d)]]
    /\ last_cleanup' = [m \in DOMAIN last_cleanup |-> Back(last_cleanup[m], d)]
    /\ UNCHANGED <<clock, ticks, anon_count, ctx_last, added, live,
                   cacheVars, concVars, raceVars, regVars, utilVars, toolVars,
                   cfgVars>>

\* the tool's calls: each may come from a tool instance built just before
\* (NewManager) or from one built earlier
LiveNext ==
    \/ \E m \in Managers, u \in UserArgs, tn \in ToolNames :
            AddConversation(m, u, tn, "q1")
    \/ \E m \in Managers, u \in UserArgs, tn \in ToolNames :
            CallGetContext(m, u, tn)
    \/ \E m \in Managers : NewManager(m)
    \/ LiveTick(LiveStep)

\* ------------------------- threads on one ContextManager and its storage
\*
\* Two threads call add_conversation for the same (user, tool) pair on one
\* manager. MemoryContextStorage holds its RLock inside each of get_context,
\* save_context and cleanup_expired, so each of those is one step; nothing is
\* held between them. UserContext objects are kept by identity: the threads
\* that looked up a stored row share the object, a thread that found none makes
\* its own.

\* most add_conversation calls started
MaxRaceCalls == 3

RaceKey == ContextKey(UserA, <<"t">>)
RaceMgr == "m1"
IdleLocals == [query |-> 0, now |-> 0, ref |-> 0]

RaceInit ==
    /\ objects = <<>>
    /\ refs = <<>>
    /\ tpc = [t \in Threads |-> "idle"]
    /\ tloc = [t \in Threads |-> IdleLocals]
    /\ calls = 0
    /\ done = {}

RaceGoto(t, label) == tpc' = [tpc EXCEPT ![t] = label]

\* the conversations of the object stored under key
RaceStored(key) ==
    IF key \in DOMAIN refs THEN objects[refs[key]].conversations ELSE <<>>

\* a thread enters add_conversation with the next question, and get_context
\* from there; _auto_cleanup reads the clock
RaceCallAdd(t) ==
    /\ tpc[t] = "idle"
    /\ calls < MaxRaceCalls
    /\ calls' = calls + 1
    /\ tloc' = [tloc EXCEPT ![t] = [query |-> calls + 1, now |-> clock, ref |-> 0]]
    /\ RaceGoto(t, "test")
    /\ UNCHANGED <<objects, refs, done, ctxVars, cacheVars, concVars,
                   regVars, utilVars, toolVars, cfgVars>>

\* _auto_cleanup: if now - self._last_cleanup > CLEANUP_INTERVAL
RaceCleanupTest(t) ==
    /\ tpc[t] = "test"
    /\ RaceGoto(t, IF tloc[t].now - last_cleanup[RaceMgr] > CLEANUP_INTERVAL
                   THEN "stamp" ELSE "lookup")
    /\ UNCHANGED <<objects, refs, tloc, calls, done, ctxVars,
                   cacheVars, concVars,
                   regVars, utilVars, toolVars, cfgVars>>

\* _auto_cleanup: self._last_cleanup = now
RaceCleanupStamp(t) ==
    /\ tpc[t] = "stamp"
    /\ last_cleanup' = [last_cleanup EXCEPT ![RaceMgr] = tloc[t].now]
    /\ RaceGoto(t, "sweep")
    /\ UNCHANGED <<objects, refs, tloc, calls, done, clock, ticks,
                   contexts, anon_count, ctx_last, added, live, cacheVars, concVars,
                   regVars, utilVars, toolVars, cfgVars>>

\* the keys cleanup_expired deletes from the storage the threads share
RaceExpiredKeys(max_age_seconds, t) ==
    {k \in DOMAIN refs : objects[refs[k]].last_access < t - max_age_seconds}

\* MemoryContextStorage.cleanup_expired: the storage it leaves and the count
\* it returns
RaceCleanupExpired(max_age_seconds, t) ==
    LET expired == RaceExpiredKeys(max_age_seconds, t)
    IN  [refs |-> [k \in DOMAIN refs \ expired |-> refs[k]],
         count |-> Cardinality(expired)]

\* _auto_cleanup: self.storage.cleanup_expired(self.DEFAULT_EXPIRY_TIME)
RaceSweep(t) ==
    LET swept == RaceCleanupExpired(DEFAULT_EXPIRY_TIME, clock)
    IN  /\ tpc[t] = "sweep"
        /\ refs' = swept.refs
        /\ done' = IF RaceKey \in DOMAIN refs /\ RaceKey \notin DOMAIN swept.refs
                   THEN {} ELSE done
        /\ RaceGoto(t, "lookup")
        /\ UNCHANGED <<objects, tloc, calls, ctxVars, cacheVars, concVars,
                   regVars, utilVars, toolVars, cfgVars>>

\* get_context: self.storage.get_context(context_key), which refreshes
\* last_access of the object it finds
RaceLookup(t) ==
    /\ tpc[t] = "lookup"
    /\ IF RaceKey \in DOMAIN refs
       THEN /\ objects' = [objects EXCEPT ![refs[RaceKey]].last_access = clock]
            /\ tloc' = [tloc EXCEPT ![t].ref = refs[RaceKey]]
            /\ RaceGoto(t, "append")
       ELSE /\ UNCHANGED <<objects, tloc>>
            /\ RaceGoto(t, "create")
    /\ UNCHANGED <<refs, calls, done, ctxVars, cacheVars, concVars,
                   regVars, utilVars, toolVars, cfgVars>>

\* get_context: no row was found: UserContext(user_id, tool_name) and
\* self.storage.save_context(user_context)
RaceCreate(t) ==
    /\ tpc[t] = "create"
    /\ objects' = Append(objects, NewUserContext(UserA, <<"t">>, clock))
    /\ refs' = [k \in DOMAIN refs \cup {RaceKey} |->
                    IF k = RaceKey THEN Len(objects) + 1 ELSE refs[k]]
    /\ tloc' = [tloc EXCEPT ![t].ref = Len(objects) + 1]
    /\ RaceGoto(t, "append")
    /\ UNCHANGED <<calls, done, ctxVars, cacheVars, concVars,
                   regVars, utilVars, toolVars, cfgVars>>

\* add_conversation: user_context.add_conversation(conversation)
RaceAppend(t) ==
    /\ tpc[t] = "append"
    /\ objects' = [objects EXCEPT
                    ![tloc[t].ref] = AddTo(@, Conversation(tloc[t].query), clock)]
    /\ RaceGoto(t, "save")
    /\ UNCHANGED <<refs, tloc, calls, done, ctxVars, cacheVars, concVars,
                   regVars, utilVars, toolVars, cfgVars>>

\* add_conversation: self.storage.save_context(user_context)
RaceSave(t) ==
    /\ tpc[t] = "save"
    /\ refs' = [k \in DOMAIN refs \cup {RaceKey} |->
                    IF k = RaceKey THEN tloc[t].ref ELSE refs[k]]
    /\ RaceGoto(t, "return")
    /\ UNCHANGED <<objects, tloc, calls, done, ctxVars, cacheVars, concVars,
                   regVars, utilVars, toolVars, cfgVars>>

\* add_conversation returns
RaceReturn(t) ==
    /\ tpc[t] = "return"
    /\ done' = done \cup {tloc[t].query}
    /\ tloc' = [tloc EXCEPT ![t] = IdleLocals]
    /\ RaceGoto(t, "idle")
    /\ UNCHANGED <<objects, refs, calls, ctxVars, cacheVars, concVars,
                   regVars, utilVars, toolVars, cfgVars>>

\* time passes while the threads run
RaceTick(d) ==
    /\ ticks < MaxTicks
    /\ ticks' = ticks + 1
    /\ clock' = clock + d
    /\ UNCHANGED <<contexts, last_cleanup, anon_count, ctx_last, added, live,
                   cacheVars, concVars, raceVars, regVars, utilVars, toolVars,
                   cfgVars>>

RaceNext ==
    \/ \E t \in Threads :
        \/ RaceCallAdd(t)
        \/ RaceCleanupTest(t)
        \/ RaceCleanupStamp(t)
        \/ RaceSweep(t)
        \/ RaceLookup(t)
        \/ RaceCreate(t)
        \/ RaceAppend(t)
        \/ RaceSave(t)
        \/ RaceReturn(t)
    \/ \E d \in TickSteps : RaceTick(d)

\* ------------------------------------------- the CacheManager registry

\* most get calls counted by one manager
MaxRegGets == 2

\* max_size of the backend get_instance attaches
DefaultMaxSize == 100

RegNames == {"x", "y"}
RegKeys == {"a", "b"}

\* CacheManager(name)
NewCacheManager(name) ==
    [name |-> name, backend |-> 0, hit_count |-> 0, miss_count |-> 0]

\* LRUCache(max_size)
NewLRUCache(cap) == [kind |-> "lru", max_size |-> cap, cache |-> <<>>]

NeedsCreateAlways(inst, name) == TRUE

\* get_instance: if name not in cls._instances
NeedsCreate(inst, name) == name \notin DOMAIN inst

\* cls._instances[name] = manager
Register(inst, name, m) ==
    [n \in DOMAIN inst \cup {name} |-> IF n = name THEN m ELSE inst[n]]

RegCall(op, name, key, ret) ==
    [op |-> op, name |-> name, key |-> key, ret |-> ret,
     known |-> name \in DOMAIN instances]

RegInit ==
    /\ instances = <<>>
    /\ mgr_objs = <<>>
    /\ backend_objs = <<>>
    /\ reg_last = [op |-> "init", name |-> "-", key |-> "-", ret |-> <<>>,
                   known |-> FALSE]
    /\ rpc = [t \in Threads |-> "idle"]
    /\ rloc = [t \in Threads |-> [m |-> 0, got |-> 0, had_backend |-> FALSE,
                                  put |-> "-"]]

\* CacheManager.get_instance(name), one caller at a time
GetInstance(name) ==
    /\ IF NeedsCreate(instances, name)
       THEN /\ mgr_objs' = Append(mgr_objs,
                    [NewCacheManager(name) EXCEPT !.backend = Len(backend_objs) + 1])
            /\ backend_objs' = Append(backend_objs, NewLRUCache(DefaultMaxSize))
            /\ instances' = Register(instances, name, Len(mgr_objs) + 1)
       ELSE UNCHANGED <<mgr_objs, backend_objs, instances>>
    /\ reg_last' = RegCall("get_instance", name, "-", <<instances'[name]>>)
    /\ UNCHANGED <<rpc, rloc, cacheVars, concVars, ctxVars, raceVars,
                   utilVars, toolVars, cfgVars>>

\* the manager registered under name and its backend
MgrOf(name) == mgr_objs[instances[name]]
BackendOf(name) == backend_objs[MgrOf(name).backend]

\* CacheManager.get on the manager registered under name
RegGet(name, key) ==
    /\ name \in DOMAIN instances
    /\ MgrOf(name).hit_count + MgrOf(name).miss_count < MaxRegGets
    /\ LET r == LRUGet(BackendOf(name).cache, key, now)
           n == Count(r.ret, MgrOf(name).hit_count, MgrOf(name).miss_count)
       IN  /\ backend_objs' = [backend_objs EXCEPT ![MgrOf(name).backend].cache = r.cache]
           /\ mgr_objs' = [mgr_objs EXCEPT ![instances[name]].hit_count = n.hit,
                                           ![instances[name]].miss_count = n.miss]
           /\ reg_last' = RegCall("get", name, key, r.ret)
    /\ UNCHANGED <<instances, rpc, rloc, cacheVars, concVars, ctxVars, raceVars,
                   utilVars, toolVars, cfgVars>>

\* CacheManager.set on the manager registered under name
RegSet(name, key, value) ==
    /\ name \in DOMAIN instances
    /\ backend_objs' = [backend_objs EXCEPT ![MgrOf(name).backend].cache =
                            LRUSet(@, key, value, None, now, BackendOf(name).max_size)]
    /\ reg_last' = RegCall("set", name, key, <<>>)
    /\ UNCHANGED <<instances, mgr_objs, rpc, rloc, cacheVars, concVars, ctxVars,
                   raceVars,
                   utilVars, toolVars, cfgVars>>

\* CacheManager.delete on the manager registered under name
RegDelete(name, key) ==
    /\ name \in DOMAIN instances
    /\ LET r == BackendDelete(BackendOf(name).cache, key)
       IN  /\ backend_objs' = [backend_objs EXCEPT ![MgrOf(name).backend].cache = r.cache]
           /\ reg_last' = RegCall("delete", name, key, <<r.ret>>)
    /\ UNCHANGED <<instances, mgr_objs, rpc, rloc, cacheVars, concVars, ctxVars,
                   raceVars,
                   utilVars, toolVars, cfgVars>>

\* CacheManager.clear on the manager registered under name
RegClear(name) ==
    /\ name \in DOMAIN instances
    /\ backend_objs' = [backend_objs EXCEPT ![MgrOf(name).backend].cache =
                            BackendClear(@)]
    /\ reg_last' = RegCall("clear", name, "-", <<>>)
    /\ UNCHANGED <<instances, mgr_objs, rpc, rloc, cacheVars, concVars, ctxVars,
                   raceVars,
                   utilVars, toolVars, cfgVars>>

\* CacheManager.reset_stats on the manager registered under name
RegResetStats(name) ==
    /\ name \in DOMAIN instances
    /\ mgr_objs' = [mgr_objs EXCEPT ![instances[name]].hit_count = 0,
                                    ![instances[name]].miss_count = 0]
    /\ reg_last' = RegCall("reset_stats", name, "-", <<>>)
    /\ UNCHANGED <<instances, backend_objs, rpc, rloc, cacheVars, concVars,
                   ctxVars, raceVars,
                   utilVars, toolVars, cfgVars>>

RegNext ==
    \/ \E name \in RegNames : GetInstance(name)
    \/ \E name \in RegNames, key \in RegKeys : RegGet(name, key)
    \/ \E name \in RegNames, key \in RegKeys : RegSet(name, key, 1)
    \/ \E name \in RegNames, key \in RegKeys : RegDelete(name, key)
    \/ \E name \in RegNames : RegClear(name)
    \/ \E name \in RegNames : RegResetStats(name)

\* --------------------------- threads in get_instance for the same name
\*
\* get_instance takes no lock: each dictionary operation and each attribute
\* assignment is one step of its thread.

RaceName == "x"

RegGoto(t, label) == rpc' = [rpc EXCEPT ![t] = label]

\* a thread calls CacheManager.get_instance(RaceName)
RegRaceCall(t) ==
    /\ rpc[t] = "idle"
    /\ RegGoto(t, "check")
    /\ UNCHANGED <<instances, mgr_objs, backend_objs, reg_last, rloc,
                   cacheVars, concVars, ctxVars, raceVars,
                   utilVars, toolVars, cfgVars>>

\* if name not in cls._instances
RegRaceCheck(t) ==
    /\ rpc[t] = "check"
    /\ RegGoto(t, IF NeedsCreate(instances, RaceName) THEN "new" ELSE "return")
    /\ UNCHANGED <<instances, mgr_objs, backend_objs, reg_last, rloc,
                   cacheVars, concVars, ctxVars, raceVars,
                   utilVars, toolVars, cfgVars>>

\* cls._instances[name] = CacheManager(name)
RegRaceNew(t) ==
    /\ rpc[t] = "new"
    /\ mgr_objs' = Append(mgr_objs, NewCacheManager(RaceName))
    /\ instances' = Register(instances, RaceName, Len(mgr_objs) + 1)
    /\ RegGoto(t, "lookup")
    /\ UNCHANGED <<backend_objs, reg_last, rloc, cacheVars, concVars, ctxVars,
                   raceVars,
                   utilVars, toolVars, cfgVars>>

\* cls._instances[name] of the set_backend line: the manager registered now
RegRaceLookup(t) ==
    /\ rpc[t] = "lookup"
    /\ rloc' = [rloc EXCEPT ![t].m = instances[RaceName]]
    /\ RegGoto(t, "set_backend")
    /\ UNCHANGED <<instances, mgr_objs, backend_objs, reg_last, cacheVars,
                   concVars, ctxVars, raceVars,
                   utilVars, toolVars, cfgVars>>

\* .set_backend(LRUCache(max_size=100)): self._backend = backend
RegRaceSetBackend(t) ==
    /\ rpc[t] = "set_backend"
    /\ backend_objs' = Append(backend_objs, NewLRUCache(DefaultMaxSize))
    /\ mgr_objs' = [mgr_objs EXCEPT ![rloc[t].m].backend = Len(backend_objs) + 1]
    /\ RegGoto(t, "return")
    /\ UNCHANGED <<instances, reg_last, rloc, cacheVars, concVars, ctxVars,
                   raceVars,
                   utilVars, toolVars, cfgVars>>

\* return cls._instances[name]
RegRaceReturn(t) ==
    /\ rpc[t] = "return"
    /\ rloc' = [rloc EXCEPT ![t].got = instances[RaceName],
                            ![t].had_backend = mgr_objs[instances[RaceName]].backend # 0]
    /\ RegGoto(t, "has")
    /\ UNCHANGED <<instances, mgr_objs, backend_objs, reg_last, cacheVars,
                   concVars, ctxVars, raceVars,
                   utilVars, toolVars, cfgVars>>

\* the caller uses what it got: manager.set(key, 1); CacheManager.set does
\* nothing when no backend is attached
RegRaceUse(t, key) ==
    /\ rpc[t] = "has"
    /\ LET b == mgr_objs[rloc[t].got].backend
       IN  IF b # 0
           THEN /\ backend_objs' = [backend_objs EXCEPT ![b].cache =
                        LRUSet(@, key, 1, None, now, backend_objs[b].max_size)]
                /\ rloc' = [rloc EXCEPT ![t].put = key]
           ELSE UNCHANGED <<backend_objs, rloc>>
    /\ RegGoto(t, "used")
    /\ UNCHANGED <<instances, mgr_objs, reg_last, cacheVars, concVars, ctxVars,
                   raceVars,
                   utilVars, toolVars, cfgVars>>

RegRaceNext ==
    \E t \in Threads :
        \/ RegRaceCall(t)
        \/ RegRaceCheck(t)
        \/ RegRaceNew(t)
        \/ RegRaceLookup(t)
        \/ RegRaceSetBackend(t)
        \/ RegRaceReturn(t)
        \/ \E key \in RegKeys : RegRaceUse(t, key)

\* ------------------------------------------------------- cache/config.py
\*
\* The registry, the managers and the backends are the objects of the
\* registry section. A configuration table is the sequence of its items in
\* insertion order, an item being <<cache_name, cache_config>>; a key that
\* cache_config does not have is None.

\* most calls that build a backend after the package import
MaxCfgCalls == 1
\* largest max_size in a table the caller supplies
MaxCfgSize == 1

CfgEntry(type, size, dttl) ==
    [type |-> type, max_size |-> size, default_ttl |-> dttl]

\* CacheConfig.DEFAULT_CONFIG ("ttl" of the lru profiles is never read)
DEFAULT_CONFIG ==
    << <<"schema_cache", CfgEntry(Some("lru"), Some(100), None)>>,
       <<"sql_cache", CfgEntry(Some("lru"), Some(50), None)>>,
       <<"prompt_cache", CfgEntry(Some("lru"), Some(20), None)>>,
       <<"dataset_info_cache", CfgEntry(Some("ttl"), Some(50), Some(3600))>> >>

\* cache_config.get("type", "lru"), .get("max_size", 100),
\* .get("default_ttl", 3600)
TypeOf(cache_config) ==
    IF cache_config.type = None THEN "lru" ELSE cache_config.type[1]
MaxSizeOf(cache_config) ==
    IF cache_config.max_size = None THEN 100 ELSE cache_config.max_size[1]
DefaultTtlOf(cache_config) ==
    IF cache_config.default_ttl = None THEN 3600 ELSE cache_config.default_ttl[1]

\* TTLCache(max_size, default_ttl)
NewTTLCache(cap, dttl) ==
    [kind |-> "ttl", max_size |-> cap, cache |-> <<>>, default_ttl |-> dttl]

\* LRUCache.__init__: if max_size <= 0: raise ValueError
LRUCacheRaises(cap) == cap <= 0
\* TTLCache.__init__ checks nothing
TTLCacheRaises(cap) == FALSE

\* the registry, the managers and the backends as one value
Heap == [inst |-> instances, mgrs |-> mgr_objs, backs |-> backend_objs]

\* a backend object no manager refers to any longer
Freed == [kind |-> "freed", max_size |-> 0, cache |-> <<>>]

\* manager.set_backend(backend), backend a new object; the manager held the
\* only reference to the backend it had
SetBackend(h, m, backend) ==
    LET old == h.mgrs[m].backend
        kept == IF old = 0 THEN h.backs ELSE [h.backs EXCEPT ![old] = Freed]
    IN  [h EXCEPT !.backs = Append(kept, backend),
                  !.mgrs[m].backend = Len(h.backs) + 1]

\* CacheManager.get_instance(name)
GetInstanceOn(h, name) ==
    IF NeedsCreate(h.inst, name)
    THEN SetBackend([h EXCEPT !.inst = Register(@, name, Len(h.mgrs) + 1),
                              !.mgrs = Append(@, NewCacheManager(name))],
                    Len(h.mgrs) + 1, NewLRUCache(DefaultMaxSize))
    ELSE h

UnknownTypeKindTtl == "ttl"

\* the backend _initialize_single_cache builds for a type it does not know
UnknownTypeKind == "lru"

\* CacheConfig._initialize_single_cache(cache_name, cache_config): the heap it
\* leaves and the exception it raises ("-" when it returns)
InitializeSingleCache(h, cache_name, cache_config) ==
    LET cache_type == TypeOf(cache_config)
        size == MaxSizeOf(cache_config)
        h1 == GetInstanceOn(h, cache_name)
        m == h1.inst[cache_name]
        built == IF cache_type = "ttl" THEN "ttl"
                 ELSE IF cache_type = "lru" THEN "lru" ELSE UnknownTypeKind
    IN  IF built = "ttl"
        THEN IF TTLCacheRaises(size) THEN [heap |-> h1, raised |-> "ValueError"]
             ELSE [heap |-> SetBackend(h1, m, NewTTLCache(size, DefaultTtlOf(cache_config))),
                   raised |-> "-"]
        ELSE IF LRUCacheRaises(size) THEN [heap |-> h1, raised |-> "ValueError"]
             ELSE [heap |-> SetBackend(h1, m, NewLRUCache(size)), raised |-> "-"]

\* for cache_name, cache_config in config.items(): try ... except Exception
RECURSIVE InitializeAll(_, _)
InitializeAll(h, config) ==
    IF Len(config) = 0 THEN h
    ELSE InitializeAll(InitializeSingleCache(h, config[1][1], config[1][2]).heap,
                       Tail(config))

\* initialize_caches: if cls._initialized: return
AlreadyInitializedNever(flag) == FALSE
AlreadyInitialized(flag) == flag

\* CacheConfig.initialize_caches(config)
InitializeCachesOn(h, flag, config) ==
    IF AlreadyInitialized(flag) THEN h
    ELSE InitializeAll(h, IF config = None THEN DEFAULT_CONFIG ELSE config[1])

CfgCall(op, name, key, config, ret, raised) ==
    [op |-> op, name |-> name, key |-> key, config |-> config, ret |-> ret,
     raised |-> raised, was_initialized |-> initialized]

CfgInit ==
    /\ imported = FALSE
    /\ initialized = FALSE
    /\ cfg_calls = 0
    /\ cfg_last = [op |-> "init", name |-> "-", key |-> "-", config |-> None,
                   ret |-> None, raised |-> "-", was_initialized |-> FALSE]
    /\ wrap_last = [op |-> "init", name |-> "-", key_prefix |-> "",
                    key_generator |-> "-", kwargs |-> <<>>, key |-> <<>>,
                    condition |-> "-", result |-> "-", ttl |-> None, at |-> 0,
                    cached |-> None, stored |-> None, executed |-> FALSE,
                    set_called |-> FALSE, ret |-> "-"]

SetHeap(h) ==
    /\ instances' = h.inst
    /\ mgr_objs' = h.mgrs
    /\ backend_objs' = h.backs

\* the names in the tables the caller supplies, the key the managers are
\* called with, and the name a manager constructed outside the registry has
CfgNames == {"sql_cache", "extra"}
CfgKey == "a"
BareName == "bare"

\* the profiles in those tables: each type with a size of 0..MaxCfgSize or
\* without one, a ttl profile with its default_ttl, and the empty profile
CfgEntries ==
    {CfgEntry(Some(type), size, None) :
        type \in {"lru", "ttl", "redis"},
        size \in {None} \cup {Some(n) : n \in 0..MaxCfgSize}}
    \cup {CfgEntry(Some("ttl"), Some(MaxCfgSize), Some(1)),
          CfgEntry(None, None, None)}

\* the tables of at most n items
Tables(n) ==
    UNION {{t \in [1..k -> CfgNames \X CfgEntries] :
              \A i, j \in 1..k : t[i][1] = t[j][1] => i = j} : k \in 0..n}

\* the config argument: omitted, or a table
Configs(n) == {None} \cup {Some(t) : t \in Tables(n)}

\* the config arguments of the calls made after the import: omitted, or one
\* lru or ttl profile of the largest size for a name
LateConfigs ==
    {None} \cup {Some(<< <<name, CfgEntry(Some(type), Some(MaxCfgSize), None)>> >>) :
                    name \in CfgNames, type \in {"lru", "ttl"}}

CfgFrame ==
    <<cacheVars, concVars, ctxVars, raceVars, utilVars, toolVars, reg_last, rpc, rloc,
      wrap_last>>

\* service/cache/__init__.py, executed when the package is first imported:
\* its last statement is initialize_cache(), without a table
ImportPackage ==
    /\ ~imported
    /\ imported' = TRUE
    /\ SetHeap(InitializeCachesOn(Heap, initialized, None))
    /\ initialized' = TRUE
    /\ cfg_last' = CfgCall("import", "-", "-", None, None, "-")
    /\ UNCHANGED <<cfg_calls, CfgFrame>>

\* initialize_cache(config) / CacheConfig.initialize_caches(config), which
\* code outside the package can call only once the package is imported
InitializeCaches(config) ==
    /\ imported
    /\ AlreadyInitialized(initialized) \/ cfg_calls < MaxCfgCalls
    /\ cfg_calls' = IF AlreadyInitialized(initialized) THEN cfg_calls
                    ELSE cfg_calls + 1
    /\ SetHeap(InitializeCachesOn(Heap, initialized, config))
    /\ initialized' = TRUE
    /\ cfg_last' = CfgCall("initialize_caches", "-", "-", config, None, "-")
    /\ UNCHANGED <<imported, CfgFrame>>

\* CacheConfig.update_cache_config(cache_name, config)
UpdateCacheConfig(cache_name, cache_config) ==
    /\ imported
    /\ cfg_calls < MaxCfgCalls
    /\ cfg_calls' = cfg_calls + 1
    /\ LET r == InitializeSingleCache(Heap, cache_name, cache_config)
       IN  /\ SetHeap(r.heap)
           /\ cfg_last' = CfgCall("update_cache_config", cache_name, "-",
                                  Some(<< <<cache_name, cache_config>> >>),
                                  None, r.raised)
    /\ UNCHANGED <<imported, initialized, CfgFrame>>

\* CacheConfig.get_cache(name)
GetCache(name) ==
    /\ imported
    /\ SetHeap(GetInstanceOn(Heap, name))
    /\ cfg_last' = CfgCall("get_cache", name, "-", None,
                           Some(GetInstanceOn(Heap, name).inst[name]), "-")
    /\ UNCHANGED <<imported, initialized, cfg_calls, CfgFrame>>

\* CacheManager(BareName), constructed by the caller and not registered
ConstructManager ==
    /\ imported
    /\ \A m \in DOMAIN mgr_objs : mgr_objs[m].name # BareName
    /\ mgr_objs' = Append(mgr_objs, NewCacheManager(BareName))
    /\ cfg_last' = CfgCall("CacheManager", BareName, "-", None,
                           Some(Len(mgr_objs) + 1), "-")
    /\ UNCHANGED <<instances, backend_objs, imported, initialized, cfg_calls,
                   CfgFrame>>

\* the managers the caller calls
OpNames == {"sql_cache", BareName}
OpManagers == {m \in DOMAIN mgr_objs : mgr_objs[m].name \in OpNames}

\* TTLCache.default_ttl of a backend object (an LRUCache has none)
DefaultTtlIn(b) == IF b.kind = "ttl" THEN b.default_ttl ELSE 0

\* TTLCache.set: next(iter(self.cache)) on an empty dictionary raises
\* StopIteration; LRUCache.set reaches the same statement only with
\* max_size <= 0, which its constructor refuses
SetRaises(b, key) ==
    Len(b.cache) >= b.max_size /\ ~Has(b.cache, key) /\ Len(b.cache) = 0

NoBackendGetCountsMiss(mgr) == [mgr EXCEPT !.miss_count = @ + 1]

\* CacheManager.get: if not self._backend: return None, the counters as
\* they were
NoBackendGet(mgr) == mgr

\* CacheManager.get on the manager object m
ObjGet(m, key) ==
    /\ mgr_objs[m].hit_count + mgr_objs[m].miss_count < MaxRegGets
    /\ IF mgr_objs[m].backend = 0
       THEN /\ cfg_last' = CfgCall("get", mgr_objs[m].name, key, None, None, "-")
            /\ mgr_objs' = [mgr_objs EXCEPT ![m] = NoBackendGet(@)]
            /\ UNCHANGED backend_objs
       ELSE LET b == backend_objs[mgr_objs[m].backend]
                r == BackendGet(b.kind, b.cache, key, now)
                n == Count(r.ret, mgr_objs[m].hit_count, mgr_objs[m].miss_count)
            IN  /\ backend_objs' = [backend_objs EXCEPT ![mgr_objs[m].backend].cache = r.cache]
                /\ mgr_objs' = [mgr_objs EXCEPT ![m].hit_count = n.hit,
                                                ![m].miss_count = n.miss]
                /\ cfg_last' = CfgCall("get", mgr_objs[m].name, key, None, r.ret, "-")
    /\ UNCHANGED <<instances, imported, initialized, cfg_calls, CfgFrame>>

\* CacheManager.set on the manager object m
ObjSet(m, key, value, ttl) ==
    /\ IF mgr_objs[m].backend = 0
       THEN /\ cfg_last' = CfgCall("set", mgr_objs[m].name, key, None, None, "-")
            /\ UNCHANGED backend_objs
       ELSE LET b == backend_objs[mgr_objs[m].backend]
            IN  IF SetRaises(b, key)
                THEN /\ cfg_last' = CfgCall("set", mgr_objs[m].name, key, None,
                                            None, "StopIteration")
                     /\ UNCHANGED backend_objs
                ELSE /\ backend_objs' =
                            [backend_objs EXCEPT ![mgr_objs[m].backend].cache =
                                BackendSet(b.kind, @, key, value, ttl, now,
                                           b.max_size, DefaultTtlIn(b))]
                     /\ cfg_last' = CfgCall("set", mgr_objs[m].name, key, None,
                                            None, "-")
    /\ UNCHANGED <<instances, mgr_objs, imported, initialized, cfg_calls, CfgFrame>>

\* CacheManager.delete on the manager object m
ObjDelete(m, key) ==
    /\ IF mgr_objs[m].backend = 0
       THEN /\ cfg_last' = CfgCall("delete", mgr_objs[m].name, key, None,
                                   Some(FALSE), "-")
            /\ UNCHANGED backend_objs
       ELSE LET r == BackendDelete(backend_objs[mgr_objs[m].backend].cache, key)
            IN  /\ backend_objs' = [backend_objs EXCEPT ![mgr_objs[m].backend].cache = r.cache]
                /\ cfg_last' = CfgCall("delete", mgr_objs[m].name, key, None,
                                       Some(r.ret), "-")
    /\ UNCHANGED <<instances, mgr_objs, imported, initialized, cfg_calls, CfgFrame>>

\* CacheManager.clear on a manager of the heap h
ClearIn(h, m) ==
    IF h.mgrs[m].backend = 0 THEN h
    ELSE [h EXCEPT !.backs[h.mgrs[m].backend].cache = BackendClear(@)]

\* CacheManager.reset_stats on a manager of the heap h
ResetStatsKeepMisses(h, m) == [h EXCEPT !.mgrs[m].hit_count = 0]
ResetStatsIn(h, m) ==
    [h EXCEPT !.mgrs[m].hit_count = 0, !.mgrs[m].miss_count = 0]

\* CacheManager.clear on the manager object m
ObjClear(m) ==
    /\ SetHeap(ClearIn(Heap, m))
    /\ cfg_last' = CfgCall("clear", mgr_objs[m].name, "-", None, None, "-")
    /\ UNCHANGED <<imported, initialized, cfg_calls, CfgFrame>>

\* CacheManager.reset_stats on the manager object m
ObjResetStats(m) ==
    /\ SetHeap(ResetStatsIn(Heap, m))
    /\ cfg_last' = CfgCall("reset_stats", mgr_objs[m].name, "-", None, None, "-")
    /\ UNCHANGED <<imported, initialized, cfg_calls, CfgFrame>>

\* the registered managers, CacheManager.get_all_instances().values()
Registered(h) == {h.inst[n] : n \in DOMAIN h.inst}

\* clear_all_caches: for cache_name, cache_manager in all_instances.items()
RECURSIVE ClearEach(_, _)
ClearEach(h, ms) ==
    IF ms = {} THEN h
    ELSE LET m == CHOOSE x \in ms : TRUE
         IN  ClearEach(ClearIn(h, m), ms \ {m})

\* reset_all_stats: for cache_name, cache_manager in all_instances.items()
RECURSIVE ResetEach(_, _)
ResetEach(h, ms) ==
    IF ms = {} THEN h
    ELSE LET m == CHOOSE x \in ms : TRUE
         IN  ResetEach(ResetStatsIn(h, m), ms \ {m})

\* CacheConfig.clear_all_caches()
ClearAllCaches ==
    /\ imported
    /\ SetHeap(ClearEach(Heap, Registered(Heap)))
    /\ cfg_last' = CfgCall("clear_all_caches", "-", "-", None, None, "-")
    /\ UNCHANGED <<imported, initialized, cfg_calls, CfgFrame>>

\* CacheConfig.reset_all_stats()
ResetAllStats ==
    /\ imported
    /\ SetHeap(ResetEach(Heap, Registered(Heap)))
    /\ cfg_last' = CfgCall("reset_all_stats", "-", "-", None, None, "-")
    /\ UNCHANGED <<imported, initialized, cfg_calls, CfgFrame>>

\* CacheConfig.initialize_caches(config) on the class as config.py defines
\* it, _initialized False and no manager registered
FirstInitializeCaches(config) ==
    /\ ~imported /\ ~initialized
    /\ SetHeap(InitializeCachesOn(Heap, initialized, config))
    /\ initialized' = TRUE
    /\ cfg_last' = CfgCall("initialize_caches", "-", "-", config, None, "-")
    /\ UNCHANGED <<imported, cfg_calls, CfgFrame>>

CfgTableNext ==
    /\ ~initialized
    /\ \E config \in Configs(2) : FirstInitializeCaches(config)

CfgNext ==
    \/ ImportPackage
    \/ \E config \in LateConfigs : InitializeCaches(config)
    \/ \E name \in CfgNames, cache_config \in CfgEntries :
            UpdateCacheConfig(name, cache_config)
    \/ \E name \in CfgNames : GetCache(name)
    \/ ConstructManager
    \/ \E m \in OpManagers : ObjGet(m, CfgKey)
    \/ \E m \in OpManagers : ObjSet(m, CfgKey, 1, None)
    \/ \E m \in OpManagers : ObjDelete(m, CfgKey)
    \/ \E m \in OpManagers : ObjClear(m)
    \/ \E m \in OpManagers : ObjResetStats(m)
    \/ ClearAllCaches
    \/ ResetAllStats

\* ------------------------------------------------------- cache/utils.py
\*
\* A string is the sequence of its characters. The characters of the stop
\* words are written by their pinyin: "qing" is one character, the stop word
\* <<"bang", "wo">> has two.

\* longest query normalized
MaxQueryLen == 4

\* the characters of the queries: four that occur in stop words, a capital
\* letter, a space and a tab
QueryChars == {"bang", "wo", "cha", "xun", "A", " ", "\t"}

\* the strings of at most n characters
StringsUpTo(n) == UNION {[1..k -> QueryChars] : k \in 0..n}

\* normalize_query: stopwords, in the order of the list
stopwords ==
    << <<"qing">>, <<"bang", "wo">>, <<"cha", "xun">>, <<"huo", "qu">>,
       <<"gao", "su", "wo">>, <<"wo", "xiang">>, <<"neng", "fou">>,
       <<"ke", "yi">>, <<"ru", "he">>, <<"zen", "me">>, <<"bang", "mang">> >>

\* \s
IsSpace(ch) == ch \in {" ", "\t"}

RECURSIVE LStrip(_)
\* str.lstrip()
LStrip(str) ==
    IF str # <<>> /\ IsSpace(Head(str)) THEN LStrip(Tail(str)) ELSE str

Reverse(str) == [i \in 1..Len(str) |-> str[Len(str) + 1 - i]]

\* str.strip()
Strip(str) == Reverse(LStrip(Reverse(LStrip(str))))

RECURSIVE CollapseSpaces(_)
\* re.sub(r'\s+', ' ', str)
CollapseSpaces(str) ==
    IF str = <<>> THEN <<>>
    ELSE IF IsSpace(Head(str)) THEN <<" ">> \o CollapseSpaces(LStrip(str))
    ELSE <<Head(str)>> \o CollapseSpaces(Tail(str))

\* str.lower(): the characters without case stay as they are
Lower(str) == [i \in 1..Len(str) |-> IF str[i] = "A" THEN "a" ELSE str[i]]

RECURSIVE Replace(_, _)
\* str.replace(word, ""): the occurrences of word found from left to right,
\* without overlap, are removed
Replace(str, word) ==
    IF Len(str) < Len(word) THEN str
    ELSE IF SubSeq(str, 1, Len(word)) = word
         THEN Replace(SubSeq(str, Len(word) + 1, Len(str)), word)
         ELSE <<Head(str)>> \o Replace(Tail(str), word)

RECURSIVE RemoveWords(_, _)
\* for word in stopwords: normalized = normalized.replace(word, "")
RemoveWords(str, words) ==
    IF words = <<>> THEN str
    ELSE RemoveWords(Replace(str, Head(words)), Tail(words))

\* normalize_query(query), remove_stopwords left at True
normalize_query(query) ==
    IF query = <<>> THEN <<>>
    ELSE Strip(CollapseSpaces(
            RemoveWords(Strip(Lower(CollapseSpaces(query))), stopwords)))

UtilInit ==
    /\ norm_last = [op |-> "init", query |-> <<>>, once |-> <<>>, twice |-> <<>>]
    /\ key_last = [op |-> "init", prefix |-> "", p1 |-> <<>>, p2 |-> <<>>,
                   k1 |-> <<>>, k2 |-> <<>>, h1 |-> <<>>, h2 |-> <<>>]

\* normalize_query(query), and normalize_query of what it returned; the
\* function keeps no state, so one call is followed from the start
NormalizeCall(query) ==
    /\ norm_last.op = "init"
    /\ norm_last' = [op |-> "normalize", query |-> query,
                     once |-> normalize_query(query),
                     twice |-> normalize_query(normalize_query(query))]
    /\ UNCHANGED <<key_last, cacheVars, concVars, ctxVars, raceVars, regVars,
                   cfgVars, toolVars>>

NormNext ==
    /\ norm_last.op = "init"
    /\ \E query \in StringsUpTo(MaxQueryLen) : NormalizeCall(query)

\* ---- generate_hash_key, create_cache_key_from_dict ----
\* A dict is the sequence of its items in insertion order, the keys distinct;
\* an item is <<key, value>>. A value carries its type and its text, so the
\* int 1 and the str '1' are different values with different repr.
MaxParams == 2
KeyOrder == <<"a", "b", "c", "d">>
ParamKeys == {KeyOrder[i] : i \in 1..MaxParams}
ParamValues == {[t |-> "int", v |-> "1"], [t |-> "int", v |-> "2"],
                [t |-> "str", v |-> "1"]}
Prefixes == {"sql"}

ParamDicts ==
    UNION {{d \in [1..n -> ParamKeys \X ParamValues] :
              \A i, j \in 1..n : d[i][1] = d[j][1] => i = j} : n \in 0..MaxParams}

\* the order of str keys under <
KeyRank(k) == CHOOSE i \in 1..Len(KeyOrder) : KeyOrder[i] = k

\* the items as inserted, without the sort
ItemsAsInserted(params) == params

\* sorted(params.items()): tuples compare by their first component, and the
\* keys of one dict are distinct
RECURSIVE SortedItems(_)
SortedItems(params) ==
    IF Len(params) = 0 THEN <<>>
    ELSE LET m == CHOOSE i \in 1..Len(params) :
                      \A j \in 1..Len(params) :
                          KeyRank(params[i][1]) <= KeyRank(params[j][1])
             rest == [i \in 1..(Len(params) - 1) |->
                          IF i < m THEN params[i] ELSE params[i + 1]]
         IN  <<params[m]>> \o SortedItems(rest)

\* repr of a value: an int prints its digits, a str prints them quoted
Repr(value) ==
    IF value.t = "str" THEN <<"'", value.v, "'">> ELSE <<value.v>>

\* str of a list of (key, value) tuples: [('a', 1), ('b', '1')]
RECURSIVE JoinItems(_)
JoinItems(items) ==
    IF Len(items) = 0 THEN <<>>
    ELSE <<"(", "'", items[1][1], "'", ", ">> \o Repr(items[1][2]) \o <<")">>
         \o (IF Len(items) = 1 THEN <<>> ELSE <<", ">>)
         \o JoinItems(Tail(items))

StrItems(items) == <<"[">> \o JoinItems(items) \o <<"]">>

\* hashlib.md5(...).hexdigest(), taken as injective on its input
Md5(combined) == <<"md5", combined>>

\* generate_hash_key(**kwargs), no positional arguments: str(()) is "()"
generate_hash_key(kwargs) ==
    Md5(<<"(", ")">> \o StrItems(SortedItems(kwargs)))

create_cache_key_from_dict(prefix, params) ==
    <<prefix, ":", Md5(StrItems(SortedItems(params)))>>

\* both functions applied to two mappings; they keep no state, so one pair
\* of calls is followed from the start
KeyCall(prefix, p1, p2) ==
    /\ key_last.op = "init"
    /\ key_last' = [op |-> "key", prefix |-> prefix, p1 |-> p1, p2 |-> p2,
                    k1 |-> create_cache_key_from_dict(prefix, p1),
                    k2 |-> create_cache_key_from_dict(prefix, p2),
                    h1 |-> generate_hash_key(p1),
                    h2 |-> generate_hash_key(p2)]
    /\ UNCHANGED <<norm_last, cacheVars, concVars, ctxVars, raceVars, regVars,
                   cfgVars, toolVars>>

KeyNext ==
    /\ key_last.op = "init"
    /\ \E prefix \in Prefixes : \E p1 \in ParamDicts : \E p2 \in ParamDicts :
           KeyCall(prefix, p1, p2)

\* ---------------------------------------------------- cache/decorators.py
\*
\* A function decorated with cacheable(), under the default manager name,
\* called with one keyword argument. What the function returns and what the
\* condition does with it are inputs of the call: the function's value for
\* these arguments, "None" for None; and for the condition "-" when none was
\* given, "true" or "false" for what it returns, "raises" when it raises.

\* most lookups counted by the manager the wrapper uses
MaxWrapCalls == 2

WrapName == "default"
FuncName == "fetch"
WrapArgs == {d \in ParamDicts : Len(d) = 1 /\ d[1][1] = "a" /\ d[1][2].t = "int"}
WrapResults == {"None", "r1"}
WrapConditions == {"-", "true", "false", "raises"}
WrapTTLs == {None, Some(1)}
WrapPrefixes == {"", "sql"}
WrapKeyGenerators == {"-", "returns", "raises"}

\* generate_cache_key(prefix, **kwargs)
generate_cache_key(prefix, kwargs) == <<prefix, ":", generate_hash_key(kwargs)>>

ReturnedAsStored(ret) == ret

\* what a lookup returns: a stored None is returned as None
Returned(ret) == IF ret = Some("None") THEN None ELSE ret

ShouldCacheAlways(condition) == TRUE

\* should_cache: True, replaced by condition(result) when a condition is
\* given and returns
ShouldCache(condition) == condition # "false"

\* key_prefix or func.__name__
DefaultPrefix(key_prefix) == IF key_prefix # "" THEN key_prefix ELSE FuncName

\* the key a key_generator that returns makes of the arguments
CustomKey(kwargs) == <<"key", ":", kwargs[1][2].v>>

CacheKeyNoFallback(key_generator, key_prefix, kwargs) ==
    IF key_generator # "-" THEN CustomKey(kwargs)
    ELSE generate_cache_key(DefaultPrefix(key_prefix), kwargs)

\* cache_key: the generator's key when one is given and returns, the default
\* key when none is given or when it raises ("-", "returns", "raises")
CacheKey(key_generator, key_prefix, kwargs) ==
    IF key_generator = "returns" THEN CustomKey(kwargs)
    ELSE generate_cache_key(DefaultPrefix(key_prefix), kwargs)

\* wrapper(**kwargs) of cacheable(name, key_prefix, ttl, key_generator,
\* condition)(func)
WrapperCall(name, key_prefix, key_generator, kwargs, result, condition, ttl) ==
    /\ imported
    /\ cfg_calls < MaxWrapCalls
    /\ cfg_calls' = cfg_calls + 1
    /\ LET h == GetInstanceOn(Heap, name)
           m == h.inst[name]
           b == h.mgrs[m].backend
           cache_key == CacheKey(key_generator, key_prefix, kwargs)
           r == BackendGet(h.backs[b].kind, h.backs[b].cache, cache_key, now)
           cached_result == Returned(r.ret)
           n == Count(cached_result, h.mgrs[m].hit_count, h.mgrs[m].miss_count)
           h1 == [h EXCEPT !.backs[b].cache = r.cache,
                           !.mgrs[m].hit_count = n.hit,
                           !.mgrs[m].miss_count = n.miss]
           call == [op |-> "call", name |-> name, key_prefix |-> key_prefix,
                    key_generator |-> key_generator, kwargs |-> kwargs,
                    key |-> cache_key, condition |-> condition,
                    result |-> result, ttl |-> ttl, at |-> now,
                    cached |-> cached_result, stored |-> r.ret]
       IN  IF cached_result # None
           THEN /\ SetHeap(h1)
                /\ wrap_last' = call @@ [executed |-> FALSE,
                                         set_called |-> FALSE,
                                         ret |-> cached_result[1]]
           ELSE /\ SetHeap(IF ShouldCache(condition)
                           THEN [h1 EXCEPT !.backs[b].cache =
                                     BackendSet(h.backs[b].kind, @, cache_key,
                                                result, ttl, now,
                                                h.backs[b].max_size,
                                                DefaultTtlIn(h.backs[b]))]
                           ELSE h1)
                /\ wrap_last' = call @@ [executed |-> TRUE,
                                         set_called |-> ShouldCache(condition),
                                         ret |-> result]
    /\ UNCHANGED <<imported, initialized, cfg_last, cacheVars,
                   concVars, ctxVars, raceVars, utilVars, toolVars, reg_last, rpc, rloc>>

\* wrapper.cache_clear()
WrapperCacheClear ==
    /\ imported
    /\ SetHeap(ClearIn(GetInstanceOn(Heap, WrapName),
                       GetInstanceOn(Heap, WrapName).inst[WrapName]))
    /\ wrap_last' = [wrap_last EXCEPT !.op = "cache_clear"]
    /\ UNCHANGED <<imported, initialized, cfg_calls, cfg_last, cacheVars,
                   concVars, ctxVars, raceVars, utilVars, toolVars, reg_last, rpc, rloc>>

WrapNext ==
    \/ ImportPackage
    \/ \E kwargs \in WrapArgs, result \in WrapResults,
          condition \in WrapConditions, ttl \in WrapTTLs :
            WrapperCall(WrapName, "", "-", kwargs, result, condition, ttl)
    \/ WrapperCacheClear
    \/ Tick

\* the same function under cacheable(key_prefix=..., key_generator=...)
WrapKeyNext ==
    \/ ImportPackage
    \/ \E key_prefix \in WrapPrefixes, key_generator \in WrapKeyGenerators,
          kwargs \in WrapArgs, result \in WrapResults :
            WrapperCall(WrapName, key_prefix, key_generator, kwargs, result,
                        "-", None)
    \/ WrapperCacheClear

\* the caches of DEFAULT_CONFIG the function is wrapped under: an lru profile
\* with "ttl": 3600 and the ttl profile with "default_ttl": 3600
NamedCaches == {"schema_cache", "dataset_info_cache"}

\* the latest time on the clock of the calls under those caches
MaxWrapTime == 3601

\* the times on the clock at which the function is called: at once, a
\* second later, an hour later and after that
WrapTimes == {1, 3600, MaxWrapTime}

\* the clock advances to a later one of those times
Sleep(until) ==
    /\ now < until
    /\ now' = until
    /\ UNCHANGED <<kind, max_size, default_ttl, cache, hit_count, miss_count,
                   last, touched, gets, hits, concVars, ctxVars, raceVars,
                   regVars, utilVars, toolVars, cfgVars>>

\* the same function under cacheable(name=..., ttl=...)
WrapNamedNext ==
    \/ ImportPackage
    \/ \E name \in NamedCaches, kwargs \in WrapArgs, ttl \in WrapTTLs :
            WrapperCall(name, "", "-", kwargs, "r1", "-", ttl)
    \/ \E until \in WrapTimes : Sleep(until)

\* ------------------------------------------------ tools/sql_executer.py
\*                                           and service/database_service.py
\*
\* Each invocation is made on a new SQLExecuterTool, built from the
\* credentials of its caller. The class keeps DatabaseService objects in an
\* OrderedDict, a sequence of <<config_key, service>> here, oldest first; a
\* service is its _engine_cache, a sequence of <<cache_key, engine>>, and an
\* engine is known by the connection URI it was created with.

\* PerformanceConfig.CACHE_MAX_SIZE
CACHE_MAX_SIZE == 5

\* the credentials of the callers: the type, the port and the database name
\* are the same for all
DbType == "mysql"
DbPort == "3306"
DbName == "db"
DbHosts == {"h1", "h2", "h3"}
DbUsers == {"u1", "u2"}
DbPasswords == {"p1", "p2"}
Credentials ==
    [db_type : {DbType}, db_host : DbHosts, db_port : {DbPort},
     db_user : DbUsers, db_password : DbPasswords, db_name : {DbName}]

ToolInit ==
    /\ db_service_cache = <<>>
    /\ tool_last = [op |-> "init"]

\* the position of key in a sequence of <<key, value>>, 0 when absent
IndexOf(items, key) ==
    IF \E i \in 1..Len(items) : items[i][1] = key
    THEN CHOOSE i \in 1..Len(items) : items[i][1] = key
    ELSE 0

\* db_service: config_str, then hashlib.md5(...).hexdigest()[:16], taken as
\* injective
ConfigKey(cfg) ==
    Md5(<<cfg.db_type, "|", cfg.db_host, "|", cfg.db_port, "|", cfg.db_name,
          "|", cfg.db_user>>)

\* _get_or_create_engine: cache_key
EngineKey(db_type, host, port, user, dbname) ==
    <<db_type, "://", user, "@", host, ":", port, "/", dbname>>

\* DatabaseService.DB_DRIVERS, for the type of these callers
DB_DRIVERS == [t \in {DbType} |-> "mysql+pymysql"]

\* _build_connection_uri for the types with the standard form; quote_plus
\* leaves the letters and digits of these users and passwords as they are
BuildConnectionUri(db_type, host, port, user, password, dbname) ==
    <<DB_DRIVERS[db_type], "://", user, ":", password, "@", host, ":", port,
      "/", dbname>>

\* the password in a connection URI
UriPassword(uri) == uri[5]

\* SQLExecuterTool.db_service on a new tool: the class-level cache it
\* leaves and the place of the tool's service in it
DbServiceOf(services, cfg) ==
    LET config_key == ConfigKey(cfg)
        i == IndexOf(services, config_key)
        moved == [j \in 1..Len(services) |->
                      IF j < i THEN services[j]
                      ELSE IF j < Len(services) THEN services[j + 1]
                      ELSE services[i]]
        room == IF Len(services) >= CACHE_MAX_SIZE THEN Tail(services)
                ELSE services
    IN  IF i # 0 THEN moved ELSE Append(room, <<config_key, <<>>>>)

\* DatabaseService._get_or_create_engine: the _engine_cache it leaves
GetOrCreateEngine(engine_cache, db_type, host, port, user, password, dbname) ==
    LET cache_key == EngineKey(db_type, host, port, user, dbname)
    IN  IF IndexOf(engine_cache, cache_key) = 0
        THEN Append(engine_cache,
                    <<cache_key,
                      BuildConnectionUri(db_type, host, port, user, password,
                                         dbname)>>)
        ELSE engine_cache

\* SQLExecuterTool(credentials)._invoke({"sql": a valid query}): the query is
\* executed on a connection of the engine execute_query gets
SqlExecuterInvoke(cfg) ==
    /\ LET services == DbServiceOf(db_service_cache, cfg)
           engine_cache ==
               GetOrCreateEngine(services[Len(services)][2], cfg.db_type,
                                 cfg.db_host, cfg.db_port, cfg.db_user,
                                 cfg.db_password, cfg.db_name)
           cache_key == EngineKey(cfg.db_type, cfg.db_host, cfg.db_port,
                                  cfg.db_user, cfg.db_name)
           engine == engine_cache[IndexOf(engine_cache, cache_key)][2]
       IN  /\ db_service_cache' =
                   [services EXCEPT ![Len(services)][2] = engine_cache]
           /\ tool_last' = [op |-> "sql_executer", config |-> cfg,
                            engine |-> engine,
                            created |-> Len(engine_cache)
                                          > Len(services[Len(services)][2])]
    /\ UNCHANGED <<cacheVars, concVars, ctxVars, raceVars, regVars, utilVars,
                   cfgVars>>

\* SQLExecuterTool.clear_cache()
SqlExecuterClearCache ==
    /\ db_service_cache' = <<>>
    /\ tool_last' = [op |-> "clear_cache"]
    /\ UNCHANGED <<cacheVars, concVars, ctxVars, raceVars, regVars, utilVars,
                   cfgVars>>

SqlNext ==
    \/ \E cfg \in Credentials : SqlExecuterInvoke(cfg)
    \/ SqlExecuterClearCache

\* ------------------------------------------------------ tools/text2sql.py
\*
\* Text2SQLTool._invoke with valid parameters, memory_enabled and
\* cache_enabled true, the same dialect, dataset id and custom prompt in every
\* invocation. The tool holds the ContextManager m and the manager of
\* "sql_cache" it got when it was constructed. What the knowledge base
\* retrieves is the same for every caller and is left out of the prompt; the
\* language model is a function of its prompt that records it.

T2STool == <<"t", "e", "x", "t", "2", "s", "q", "l">>
T2SDialect == "mysql"
T2SDataset == "ds"
T2SCustomPrompt == ""
Contents == {<<"a">>, <<"b">>}
\* memory_window_size must be between 1 and 10
T2SWindows == {1, 2}

\* the positional arguments _invoke passes to _build_system_prompt, and the
\* parameters text2sql_prompt._build_system_prompt(dialect, custom_prompt)
\* takes
PromptArgsPassed == 6
PromptParams == 2

\* the call raises TypeError, which _invoke re-raises as ValueError
BuildSystemPromptRaises == PromptArgsPassed > PromptParams

\* the system prompt the call is written to build
SystemPrompt(content, conversation_history) ==
    <<"prompt", content, conversation_history>>

\* session.model.llm.invoke and the joined chunks of its response
Llm(system_prompt, content) == <<"llm", system_prompt, content>>

\* the conversation history in the prompt a generated SQL was made from
PromptHistory(sql) == sql[2][3]

\* create_cache_key_from_dict("sql", {dialect, query, dataset_id,
\* custom_prompt}), the items in the order of their keys
SqlCacheKey(dialect, content, dataset_id, custom_prompt) ==
    <<"sql", ":",
      Md5(<<custom_prompt, dataset_id, dialect, normalize_query(content)>>)>>

\* the ttl _invoke stores a generated SQL with
SqlCacheTtl == 7200

Text2SQLInvoke(m, user_id, content, window, reset_memory) ==
    LET key == ContextKey(user_id, T2STool)
        g == GetContext(m, user_id, T2STool, clock)
        own == [i \in 1..Len(g.ctx.conversations) |->
                    ToDict(g.ctx.conversations[i])]
        \* reset_memory(user_id), or get_conversation_history(user_id, window)
        ctx0 == IF reset_memory THEN ClearConversations(g.ctx, clock)
                ELSE g.ctx
        cs0 == SaveContext(g.contexts, ctx0)
        recent == RecentConversations(g.ctx.conversations, window)
        conversation_history ==
            IF reset_memory THEN <<>>
            ELSE [i \in 1..Len(recent) |-> ToDict(recent[i])]
        system_prompt == SystemPrompt(content, conversation_history)
        cache_key == SqlCacheKey(T2SDialect, content, T2SDataset,
                                 T2SCustomPrompt)
        h == GetInstanceOn(Heap, "sql_cache")
        c == h.inst["sql_cache"]
        b == h.mgrs[c].backend
        r == IF reset_memory THEN [ret |-> None, cache |-> h.backs[b].cache]
             ELSE BackendGet(h.backs[b].kind, h.backs[b].cache, cache_key, now)
        n == IF reset_memory
             THEN [hit |-> h.mgrs[c].hit_count, miss |-> h.mgrs[c].miss_count]
             ELSE Count(r.ret, h.mgrs[c].hit_count, h.mgrs[c].miss_count)
        h1 == [h EXCEPT !.backs[b].cache = r.cache,
                        !.mgrs[c].hit_count = n.hit,
                        !.mgrs[c].miss_count = n.miss]
        generated_sql == Llm(system_prompt, content)
        sql == IF r.ret # None THEN r.ret[1] ELSE generated_sql
        conv == [query |-> content, sql |-> sql,
                 metadata |-> IF r.ret # None THEN <<"from_cache">> ELSE <<>>]
        call == [op |-> "text2sql", user_id |-> user_id, content |-> content,
                 reset_memory |-> reset_memory, own |-> own,
                 history |-> conversation_history]
        was == IF reset_memory \/ key \notin DOMAIN added THEN <<>>
               ELSE added[key]
        lived == IF reset_memory
                    \/ key \notin DOMAIN AutoCleanup(m, contexts, clock)
                 THEN <<>> ELSE live[key]
    IN  /\ imported
        /\ IF BuildSystemPromptRaises
           THEN /\ contexts' = cs0
                /\ added' = [k \in DOMAIN added \cup {key} |->
                                IF k = key THEN was ELSE added[k]]
                /\ live' = Recorded(live, contexts', key, lived)
                /\ UNCHANGED <<instances, mgr_objs, backend_objs>>
                /\ tool_last' = call @@ [raised |-> "ValueError", sql |-> None]
           ELSE /\ Len(was) < MaxConvs
                /\ contexts' = SaveContext(cs0, AddTo(ctx0, conv, clock))
                /\ added' = [k \in DOMAIN added \cup {key} |->
                                IF k = key THEN Append(was, conv)
                                ELSE added[k]]
                /\ live' = Recorded(live, contexts', key, Append(lived, conv))
                /\ SetHeap(IF r.ret = None /\ ~reset_memory
                           THEN [h1 EXCEPT !.backs[b].cache =
                                     BackendSet(h.backs[b].kind, @, cache_key,
                                                generated_sql, Some(SqlCacheTtl),
                                                now, h.backs[b].max_size,
                                                DefaultTtlIn(h.backs[b]))]
                           ELSE h1)
                /\ tool_last' = call @@ [raised |-> "-", sql |-> Some(sql)]
        /\ CtxCall(m, IF reset_memory THEN "reset" ELSE "history",
                   Some(user_id), T2STool, window,
                   IF reset_memory THEN <<TRUE>> ELSE conversation_history)
        /\ UNCHANGED <<clock, ticks, cacheVars, concVars, raceVars, utilVars,
                       db_service_cache, cfgVars, reg_last, rpc, rloc>>

\* the tool invoked by two users; conversations of the tool's name recorded
\* through the ContextManager; time passing
T2SNext ==
    \/ ImportPackage
    \/ \E m \in Managers : \E u \in {UserA, UserB} : \E content \in Contents :
           \/ \E window \in T2SWindows : \E reset_memory \in BOOLEAN :
                  Text2SQLInvoke(m, u, content, window, reset_memory)
           \/ AddConversation(m, Some(u), T2STool, content)
    \/ \E d \in TickSteps : CtxTick(d)

vars == <<cacheVars, concVars, ctxVars, raceVars, regVars, utilVars, toolVars, cfgVars>>

Init ==
    /\ CacheInit /\ ConcInit /\ CtxInit /\ RaceInit /\ RegInit /\ UtilInit
    /\ CfgInit /\ ToolInit

Next == CacheNext

Spec == Init /\ [][Next]_vars

SpecMgr == Init /\ [][MgrNext]_vars

SpecConc == Init /\ [][ConcNext]_vars

SpecCount == Init /\ [][CountNext]_vars

\* the context layer beside one LRUCache(max_size=1) that is not called
CtxOnlyInit == Init /\ kind = "lru" /\ max_size = 1

SpecCtx == CtxOnlyInit /\ [][CtxNext]_vars

SpecSweep == CtxOnlyInit /\ [][SweepNext]_vars

SpecCtxFail == CtxOnlyInit /\ [][CtxFailNext]_vars

SpecCtxKey == CtxOnlyInit /\ [][CtxKeyNext]_vars

SpecCtxAnon == CtxOnlyInit /\ [][CtxAnonNext]_vars

\* time keeps passing and the tool keeps being called for user B
LiveFairness ==
    /\ WF_vars(LiveTick(LiveStep))
    /\ WF_vars(\E m \in Managers : CallGetContext(m, Some(UserB), <<"t">>))

SpecCtxLive == CtxOnlyInit /\ [][LiveNext]_vars /\ LiveFairness

SpecCtxRace == CtxOnlyInit /\ [][RaceNext]_vars

SpecReg == CtxOnlyInit /\ [][RegNext]_vars

SpecRegRace == CtxOnlyInit /\ [][RegRaceNext]_vars

SpecNorm == CtxOnlyInit /\ [][NormNext]_vars
SpecKey == CtxOnlyInit /\ [][KeyNext]_vars

SpecCfg == CtxOnlyInit /\ [][CfgNext]_vars

SpecCfgTable == CtxOnlyInit /\ [][CfgTableNext]_vars

SpecWrap == CtxOnlyInit /\ [][WrapNext]_vars

SpecWrapKey == CtxOnlyInit /\ [][WrapKeyNext]_vars

SpecWrapNamed == CtxOnlyInit /\ [][WrapNamedNext]_vars

SpecSql == CtxOnlyInit /\ [][SqlNext]_vars

SpecT2S == CtxOnlyInit /\ [][T2SNext]_vars

\* ------------------------------------------------------ cache claims

\* a step that is a call of op on the cache (every call records itself in
\* last; only Tick moves the clock)
IsCall(op) == now' = now /\ last'.op = op

\* C1: in the LRU backend a set of a key that is not stored, made when
\* max_size entries are stored, removes exactly one entry: the one whose last
\* successful get or set is the oldest; every other entry stays and the new
\* key is stored.
C1_LRUEvictsLeastRecentlyUsed ==
    [][(kind = "lru" /\ IsCall("set") /\ ~Has(cache, last'.key)
            /\ Len(cache) = max_size)
        => /\ KeysOf(cache) \ KeysOf(cache') = {touched[1]}
           /\ KeysOf(cache') = (KeysOf(cache) \ {touched[1]}) \cup {last'.key}
      ]_vars

\* an overflowing set on a full LRU backend of two unexpired entries has
\* evicted one of them and kept the other
C1_Witness ==
    /\ kind = "lru" /\ max_size = 2
    /\ last.op = "set" /\ ~last.had /\ last.before = 2
    /\ Len(cache) = 2
    /\ \A i \in 1..2 : ~Expired(cache[i].expire_time, now)

\* C2: called one operation at a time, a backend never stores more than
\* max_size entries, and a set of a new key at full capacity removes exactly
\* one stored entry.
C2_CapacityBound ==
    [][/\ Len(cache') <= max_size
       /\ (IsCall("set") /\ ~Has(cache, last'.key) /\ Len(cache) = max_size)
            => /\ Cardinality(KeysOf(cache) \ KeysOf(cache')) = 1
               /\ Len(cache') = max_size
      ]_vars

\* a TTL backend at its capacity of two after an overflowing set
C2_Witness ==
    /\ kind = "ttl" /\ max_size = 2
    /\ last.op = "set" /\ ~last.had /\ last.before = 2
    /\ Len(cache) = 2

\* C23: in the TTL backend a set of a key that is not stored, made when
\* max_size entries are stored, removes exactly one stored entry, and the
\* entry removed is an expired one whenever some stored entry is expired.
C23_TTLEviction ==
    [][(kind = "ttl" /\ IsCall("set") /\ ~Has(cache, last'.key)
            /\ Len(cache) = max_size)
        => \E victim \in KeysOf(cache) :
              /\ KeysOf(cache') = (KeysOf(cache) \ {victim}) \cup {last'.key}
              /\ \A k \in KeysOf(cache) \ {victim} :
                    Entry(cache', k) = Entry(cache, k)
              /\ (\E k \in KeysOf(cache) : now >= Entry(cache, k).expire_time[1])
                    => now >= Entry(cache, victim).expire_time[1]
      ]_vars

\* an overflowing set on a full TTL backend of two entries kept the first,
\* unexpired, entry and removed the second
C23_Witness ==
    /\ kind = "ttl" /\ max_size = 2
    /\ last.op = "set" /\ ~last.had /\ last.before = 2
    /\ Len(cache) = 2 /\ cache[1].key = last.first
    /\ cache[2].key = last.key
    /\ now < cache[1].expire_time[1]

C4_LazyExpiry ==
    [][(IsCall("get") /\ Has(cache, last'.key)
            /\ Entry(cache, last'.key).expire_time # None
            /\ Entry(cache, last'.key).expire_time[1] <= now)
        => /\ last'.ret = None
           /\ ~Has(cache', last'.key)
           /\ Len(cache') = Len(cache) - 1
      ]_vars

\* a get that found its key stored, returned None and left one entry fewer
C4_Witness ==
    /\ last.op = "get" /\ last.had /\ last.ret = None
    /\ Len(cache) = last.before - 1
    /\ last.before = 2

\* C5: through the CacheManager, on either backend, a get of k that follows
\* set(k, v, ttl) returns None when ttl <= 0, and returns v when ttl > 0 and
\* the get is made before set-time + ttl.
C5_TTLBoundary ==
    [][(last.op = "set" /\ last.ttl # None /\ IsCall("get")
            /\ last'.key = last.key)
        => IF last.ttl[1] <= 0
           THEN last'.ret = None
           ELSE (now < last.at + last.ttl[1]) => last'.ret = Some(last.value)
      ]_vars

\* a get made after the clock moved returned the value of an entry that
\* expires one second later
C5_Witness ==
    /\ last.op = "get" /\ last.ret # None /\ last.at = 1
    /\ Entry(cache, last.key).expire_time = Some(2)
    /\ hit_count = 1

\* C6: a set on a stored key replaces its value and expiry, stores and
\* removes no other entry (also at full capacity), leaves the other entries
\* as they were and, in the LRU backend, makes the key the most recently used
\* one; a get of the key that follows, the new expiry not reached, returns
\* the new value.
C6_Overwrite ==
    [][/\ (IsCall("set") /\ Has(cache, last'.key))
            => /\ Len(cache') = Len(cache)
               /\ KeysOf(cache') = KeysOf(cache)
               /\ Entry(cache', last'.key).value = last'.value
               /\ Entry(cache', last'.key).expire_time
                    = ExpiryOf(kind, last'.ttl, now, default_ttl)
               /\ \A k \in KeysOf(cache) \ {last'.key} :
                    Entry(cache', k) = Entry(cache, k)
               /\ kind = "lru" => cache'[Len(cache')].key = last'.key
       /\ (last.op = "set" /\ last.had /\ IsCall("get") /\ last'.key = last.key
            /\ ~Expired(ExpiryOf(kind, last.ttl, last.at, default_ttl), now))
            => last'.ret = Some(last.value)
      ]_vars

\* an overwriting set on a full LRU backend of two entries
C6_Witness ==
    /\ max_size = 2 /\ last.op = "set" /\ last.had /\ last.before = 2
    /\ kind = "lru" /\ cache[2].key = last.key /\ cache[2].value = 2
    /\ Len(cache) = 2

\* C7: every CacheManager.get adds one to exactly one of hit_count and
\* miss_count, to hit_count exactly when the backend returned a value: after
\* gets calls since the last reset_stats, hits of which returned a value,
\* hit_count = hits, miss_count = gets - hits and get_stats reports
\* total_requests = gets.
C7_HitMissAccounting ==
    /\ hit_count = hits
    /\ miss_count = gets - hits
    /\ GetStats.total_requests = gets

\* one hit and one miss have been counted
C7_Witness ==
    /\ gets = 2 /\ hits = 1 /\ hit_count = 1 /\ miss_count = 1

\* C3: with threads calling set and get on one backend at the same time, the
\* backend never stores more than max_size entries.
C3_ConcurrentCapacityBound == Len(cache) <= max_size

\* ---------------------------------------------------- context claims

Users == {UserA, UserB}

\* a step that is a call of op on a ContextManager (every call records
\* itself in ctx_last; only CtxTick moves the clock)
IsCtxCall(op) == clock' = clock /\ ctx_last'.op = op

\* the last k elements of s, oldest first
LastN(s, k) == [i \in 1..k |-> s[Len(s) - k + i]]

\* the dictionaries of a list of conversations
Dicts(convs) == [i \in 1..Len(convs) |-> ToDict(convs[i])]

\* the conversations stored for a key, none when it has no row
Stored(cs, key) == IF key \in DOMAIN cs THEN cs[key].conversations ELSE <<>>

\* C8 as stated: get_conversation_history with window w >= 1 returns the last
\* min(w, n) of the n conversations added for the pair since its last reset.
C8_WindowSinceReset ==
    (ctx_last.op = "history" /\ ctx_last.window >= 1)
        => ctx_last.ret = Dicts(LastN(added[ctx_last.key],
                                      Min(ctx_last.window, Len(added[ctx_last.key]))))

\* C8 amended: get_conversation_history with window w >= 1 returns the last
\* min(w, n) of the n conversations added for the pair since its last reset or
\* since the expiry sweep last removed its row, oldest first, unpadded.
C8_WindowedHistory ==
    (ctx_last.op = "history" /\ ctx_last.window >= 1)
        => /\ ctx_last.ret = Dicts(LastN(live[ctx_last.key],
                                         Min(ctx_last.window, Len(live[ctx_last.key]))))
           /\ Len(ctx_last.ret) = Min(ctx_last.window, Len(live[ctx_last.key]))

\* a window of 1 over the two conversations q1, q2 returned q2 alone
C8_Witness ==
    /\ ctx_last.op = "history" /\ ctx_last.window = 1
    /\ Len(live[ctx_last.key]) = 2
    /\ live[ctx_last.key][1].query = "q1"
    /\ Len(ctx_last.ret) = 1 /\ ctx_last.ret[1].query = "q2"

\* C9 as stated: no add_conversation or reset_memory call for one user
\* changes the history of another user of the same tool.
C9_IsolationOfAllCalls ==
    [][\A u \in Users, v \in Users, tn \in ToolNames :
        (u # v /\ (IsCtxCall("add") \/ IsCtxCall("reset"))
            /\ ctx_last'.key = ContextKey(u, tn))
        => Stored(contexts', ContextKey(v, tn)) = Stored(contexts, ContextKey(v, tn))
      ]_vars

\* C9 amended: an add_conversation or reset_memory call for one user leaves
\* the history of another user of the same tool as it was, unless the call
\* runs the expiry sweep and the other user's row was last accessed more than
\* the expiry time ago: then that row is removed.
C9_UserIsolation ==
    [][\A u \in Users, v \in Users, tn \in ToolNames :
        (u # v /\ (IsCtxCall("add") \/ IsCtxCall("reset"))
            /\ ctx_last'.key = ContextKey(u, tn))
        => \/ /\ Stored(contexts', ContextKey(v, tn)) = Stored(contexts, ContextKey(v, tn))
              /\ ContextKey(v, tn) \in DOMAIN contexts'
                    <=> ContextKey(v, tn) \in DOMAIN contexts
           \/ /\ CleanupDue(ctx_last'.mgr, clock)
              /\ ContextKey(v, tn) \in DOMAIN contexts
              /\ contexts[ContextKey(v, tn)].last_access < clock - DEFAULT_EXPIRY_TIME
              /\ ContextKey(v, tn) \notin DOMAIN contexts'
      ]_vars

\* user A has added a conversation while user B holds two of its own
C9_Witness ==
    /\ ctx_last.op = "add" /\ ctx_last.key = ContextKey(UserA, <<"t">>)
    /\ Len(Stored(contexts, ContextKey(UserA, <<"t">>))) = 1
    /\ Len(Stored(contexts, ContextKey(UserB, <<"t">>))) = 2

\* C10: reset_memory returns True and leaves the pair's row stored with no
\* conversations, also when the pair had no row; a get_conversation_history
\* of the pair that follows returns the empty list for every window size.
C10_ResetSemantics ==
    [][/\ IsCtxCall("reset")
            => /\ ctx_last'.ret = <<TRUE>>
               /\ ctx_last'.key \in DOMAIN contexts'
               /\ contexts'[ctx_last'.key].conversations = <<>>
               /\ \A w \in -3..3 :
                    RecentConversations(contexts'[ctx_last'.key].conversations, w) = <<>>
       /\ (ctx_last.op = "reset" /\ IsCtxCall("history")
                /\ ctx_last'.key = ctx_last.key)
            => ctx_last'.ret = <<>>
      ]_vars

\* reset_memory for a pair that had no row has left an empty row
C10_Witness ==
    /\ ctx_last.op = "reset" /\ ~ctx_last.had
    /\ ctx_last.key \in DOMAIN contexts
    /\ contexts[ctx_last.key].conversations = <<>>
    /\ Cardinality(DOMAIN contexts) = 2

\* the row of key is removed by the sweep of a call on manager m now
SweptBy(m, key) ==
    /\ CleanupDue(m, clock)
    /\ key \in DOMAIN contexts
    /\ contexts[key].last_access < clock - DEFAULT_EXPIRY_TIME

\* C11 as stated: get_context creates an empty row for a pair that has none,
\* and for a pair that has a row returns it with its conversations unchanged
\* and last_access set to now; a row leaves storage only by the sweep.
C11_GetOrCreateAlwaysKeeps ==
    [][IsCtxCall("get") =>
        LET key == ctx_last'.key
            row == ctx_last'.ret[1]
        IN  /\ key \in DOMAIN contexts' /\ contexts'[key] = row
            /\ row.last_access = clock
            /\ key \notin DOMAIN contexts => row.conversations = <<>>
            /\ key \in DOMAIN contexts
                    => row.conversations = contexts[key].conversations
      ]_vars

\* C11 amended: get_context creates and stores an empty row for a pair that
\* has none or whose row the call's own sweep removes; for a pair whose row
\* the sweep leaves it returns that row, conversations unchanged, last_access
\* set to now; it adds no row for another key; every row that leaves storage
\* in any call is one the sweep of that call removes, and reset_memory leaves
\* the row of its pair stored.
C11_GetOrCreate ==
    [][/\ IsCtxCall("get") =>
            LET key == ctx_last'.key
                row == ctx_last'.ret[1]
                m == ctx_last'.mgr
            IN  /\ key \in DOMAIN contexts' /\ contexts'[key] = row
                /\ row.last_access = clock
                /\ DOMAIN contexts' \subseteq DOMAIN contexts \cup {key}
                /\ (key \notin DOMAIN contexts \/ SweptBy(m, key))
                        => row.conversations = <<>>
                /\ (key \in DOMAIN contexts /\ ~SweptBy(m, key))
                        => row.conversations = contexts[key].conversations
       /\ clock' = clock =>
            \A k \in DOMAIN contexts :
                k \notin DOMAIN contexts' => SweptBy(ctx_last'.mgr, k)
       /\ IsCtxCall("reset") => ctx_last'.key \in DOMAIN contexts'
      ]_vars

\* get_context has returned a stored row that holds two conversations and was
\* last accessed before now
C11_Witness ==
    /\ ctx_last.op = "get" /\ ctx_last.had
    /\ clock > 0
    /\ Len(ctx_last.ret[1].conversations) = 2
    /\ ctx_last.ret[1].last_access = clock
    /\ Cardinality(DOMAIN contexts) = 2

\* s is a prefix of t that is one element shorter
OneAppended(s, t) == Len(t) = Len(s) + 1 /\ SubSeq(t, 1, Len(s)) = s

\* C12: in every step the conversations stored for a key stay as they are, or
\* gain one conversation at the end in an add_conversation for that key, or
\* are emptied by a reset_memory for that key or by a sweep that removes the
\* row (after which an add_conversation for the key may already have stored
\* its one conversation); get_conversation_history and get_context change no
\* stored conversation unless their sweep removes the row.
C12_AppendOnly ==
    [][clock' = clock =>
        \A k \in DOMAIN contexts \cup DOMAIN contexts' :
            LET old == Stored(contexts, k)
                new == Stored(contexts', k)
                mine == ctx_last'.key = k
                emptied == \/ ctx_last'.op = "reset" /\ mine
                           \/ SweptBy(ctx_last'.mgr, k)
            IN  /\ \/ new = old
                   \/ ctx_last'.op = "add" /\ mine /\ ~emptied /\ OneAppended(old, new)
                   \/ emptied /\ new = <<>>
                   \/ emptied /\ ctx_last'.op = "add" /\ mine /\ OneAppended(<<>>, new)
                /\ (ctx_last'.op \in {"history", "get", "construct"} /\ ~emptied)
                        => new = old
      ]_vars

\* an add_conversation has stored q2 behind the q1 that was stored before
C12_Witness ==
    /\ ctx_last.op = "add" /\ ctx_last.had
    /\ Len(contexts[ctx_last.key].conversations) = 2
    /\ contexts[ctx_last.key].conversations[1].query = "q1"
    /\ contexts[ctx_last.key].conversations[2].query = "q2"

\* C13: every add_conversation call that has returned has its conversation
\* in the history stored for the pair (counted since the sweep last removed
\* the pair's row).
C13_NoLostConversation ==
    \A q \in done :
        \E i \in 1..Len(RaceStored(RaceKey)) : RaceStored(RaceKey)[i].query = q

ExpiredRow(key) ==
    key \in DOMAIN contexts
        /\ contexts[key].last_access < clock - DEFAULT_EXPIRY_TIME

\* C15: once a row has not been accessed for more than the expiry time, and
\* the tool keeps calling ContextManager operations, the row is eventually
\* removed (or accessed again, which ends its being unused).
C15_ExpiredRowEventuallyRemoved ==
    \A u \in Users :
        ExpiredRow(ContextKey(u, <<"t">>)) ~> ~ExpiredRow(ContextKey(u, <<"t">>))

\* C17: get_instance(name) returns the manager registered under name; for a
\* name already registered that is the same object as before and nothing is
\* created or changed; for an unseen name it is a new manager with zeroed
\* counters and an empty LRU backend of capacity 100; and no call made for one
\* name (get_instance, get, set, delete, clear, reset_stats) changes the
\* manager, the counters or the backend contents registered under another.
C17_RegistryIdempotence ==
    [][/\ reg_last'.op = "get_instance" =>
            LET name == reg_last'.name
            IN  /\ reg_last'.ret = <<instances'[name]>>
                /\ name \in DOMAIN instances =>
                        /\ instances'[name] = instances[name]
                        /\ mgr_objs' = mgr_objs
                        /\ backend_objs' = backend_objs
                /\ name \notin DOMAIN instances =>
                        /\ \A n \in DOMAIN instances : instances[n] # instances'[name]
                        /\ instances'[name] \notin DOMAIN mgr_objs
                        /\ mgr_objs'[instances'[name]].hit_count = 0
                        /\ mgr_objs'[instances'[name]].miss_count = 0
                        /\ mgr_objs'[instances'[name]].backend \notin DOMAIN backend_objs
                        /\ backend_objs'[mgr_objs'[instances'[name]].backend]
                                = [kind |-> "lru", max_size |-> 100, cache |-> <<>>]
       /\ \A y \in DOMAIN instances :
            y # reg_last'.name =>
                /\ y \in DOMAIN instances' /\ instances'[y] = instances[y]
                /\ mgr_objs'[instances[y]] = mgr_objs[instances[y]]
                /\ backend_objs'[mgr_objs[instances[y]].backend]
                        = backend_objs[mgr_objs[instances[y]].backend]
      ]_vars

\* get_instance("x") has been called again after x and y were registered,
\* x's backend holds an entry and x has counted a hit
C17_Witness ==
    /\ reg_last.op = "get_instance" /\ reg_last.name = "x" /\ reg_last.known
    /\ DOMAIN instances = {"x", "y"}
    /\ reg_last.ret = <<instances["x"]>>
    /\ Len(BackendOf("x").cache) = 1 /\ Len(BackendOf("y").cache) = 0
    /\ MgrOf("x").hit_count = 1

\* C18: the threads that have received a manager from get_instance for the
\* same unseen name hold the same object, the object had a backend when it was
\* returned, and every entry a thread has set through it is in its backend.
C18_ConcurrentRegistry ==
    \A t \in Threads, u \in Threads :
        /\ rpc[t] \in {"has", "used"} => rloc[t].had_backend
        /\ (rpc[t] \in {"has", "used"} /\ rpc[u] \in {"has", "used"})
                => rloc[t].got = rloc[u].got
        /\ (rpc[t] = "used" /\ rloc[t].put # "-")
                => Has(backend_objs[mgr_objs[rloc[t].got].backend].cache, rloc[t].put)

\* C19: normalize_query applied to its own result returns that result.
C19_NormalizeIdempotent == norm_last.twice = norm_last.once

PairSet(params) == {params[i] : i \in 1..Len(params)}

DifferInValue(p1, p2) ==
    \E i \in 1..Len(p1) : \E j \in 1..Len(p2) :
        p1[i][1] = p2[j][1] /\ p1[i][2] # p2[j][2]

\* C20: two mappings with the same (key, value) pairs, in whatever order they
\* were inserted, get the same cache key and the same hash key; two mappings
\* that differ in the value of some key get different ones.
C20_KeyDerivation ==
    key_last.op = "key" =>
        /\ PairSet(key_last.p1) = PairSet(key_last.p2) =>
               key_last.k1 = key_last.k2 /\ key_last.h1 = key_last.h2
        /\ DifferInValue(key_last.p1, key_last.p2) =>
               key_last.k1 # key_last.k2 /\ key_last.h1 # key_last.h2

\* the same two pairs inserted in opposite orders, keyed alike
C20_Witness ==
    /\ key_last.op = "key"
    /\ Len(key_last.p1) = 2
    /\ key_last.p1 # key_last.p2
    /\ PairSet(key_last.p1) = PairSet(key_last.p2)
    /\ key_last.k1 = key_last.k2
    /\ key_last.h1 = key_last.h2

\* C28: a call during which the storage raised returns, and returns a value
\* that tells the caller so: reset_memory False, get_conversation_history an
\* empty list, add_conversation a value other than the one it returns when
\* the conversation was added.
C28_FailuresSignalled ==
    /\ ctx_last.op = "reset_failed" => ctx_last.ret = <<FALSE>>
    /\ ctx_last.op = "history_failed" => ctx_last.ret = <<>>
    /\ ctx_last.op = "add_failed" => ctx_last.ret # AddReturns

\* ------------------------------------------------------- config claims

\* the backend of the manager registered under name
CfgBackend(name) == backend_objs[mgr_objs[instances[name]].backend]

\* the same after the step
CfgBackendNext(name) == backend_objs'[mgr_objs'[instances'[name]].backend]

\* C21: an initialize_caches call made when _initialized is set, whatever its
\* config, leaves the registry, every manager with its counters and every
\* backend with its entries as they were, and _initialized set.
C21_BootstrapIdempotence ==
    [][(initialized /\ cfg_last'.op = "initialize_caches")
        => /\ instances' = instances
           /\ mgr_objs' = mgr_objs
           /\ backend_objs' = backend_objs
           /\ initialized'
      ]_vars

\* initialize_caches has been called again, with a ttl profile for sql_cache,
\* when sql_cache held an entry in its lru backend and had counted a hit
C21_Witness ==
    /\ cfg_last.op = "initialize_caches" /\ cfg_last.was_initialized
    /\ cfg_last.config # None
    /\ cfg_last.config[1][1][1] = "sql_cache"
    /\ cfg_last.config[1][1][2].type = Some("ttl")
    /\ CfgBackend("sql_cache").kind = "lru"
    /\ Len(CfgBackend("sql_cache").cache) = 1
    /\ mgr_objs[instances["sql_cache"]].hit_count = 1

\* the backend a profile asks for, max_size being valid
AsConfigured(b, cache_config) ==
    /\ b.kind = TypeOf(cache_config)
    /\ b.max_size = MaxSizeOf(cache_config)

\* C22: after initialize_caches(config) with a table, every cache the table
\* names, with a type of lru or ttl and a positive max_size, has a backend of
\* that type and max_size.
C22_SuppliedConfigTakesEffect ==
    (cfg_last.op = "initialize_caches" /\ cfg_last.config # None)
        => \A i \in 1..Len(cfg_last.config[1]) :
              LET name == cfg_last.config[1][i][1]
                  cache_config == cfg_last.config[1][i][2]
              IN  (TypeOf(cache_config) \in {"lru", "ttl"}
                        /\ MaxSizeOf(cache_config) > 0)
                    => /\ name \in DOMAIN instances
                       /\ AsConfigured(CfgBackend(name), cache_config)

\* C25: no backend has a max_size <= 0, and no set has failed in the
\* overflow branch.
C25_InvalidCapacityFailsFast ==
    /\ \A b \in DOMAIN backend_objs :
          backend_objs[b].kind # "freed" => backend_objs[b].max_size > 0
    /\ cfg_last.raised # "StopIteration"

\* the managers constructed without a backend
Bare == {m \in DOMAIN mgr_objs : mgr_objs[m].backend = 0}

\* C26: on a manager that has no backend, get returns None, delete returns
\* False, set and clear return, none of them raises, and each leaves the
\* manager's counters, every other manager and every backend as they were.
C26_NoBackendAlwaysMiss ==
    [][(cfg_last'.name = BareName /\ Bare # {}
            /\ cfg_last'.op \in {"get", "set", "delete", "clear"})
        => /\ mgr_objs' = mgr_objs
           /\ backend_objs' = backend_objs
           /\ instances' = instances
           /\ cfg_last'.raised = "-"
           /\ cfg_last'.op = "get" => cfg_last'.ret = None
           /\ cfg_last'.op = "delete" => cfg_last'.ret = Some(FALSE)
      ]_vars

\* get has been called on the manager constructed without a backend
C26_Witness ==
    /\ Bare # {}
    /\ cfg_last.op = "get" /\ cfg_last.name = BareName /\ cfg_last.ret = None
    /\ \A m \in Bare : mgr_objs[m].hit_count = 0 /\ mgr_objs[m].miss_count = 0

\* C27: hit_count and miss_count of a manager never decrease except that
\* reset_stats and reset_all_stats set both to 0; set, delete, clear,
\* update_cache_config (set_backend) and clear_all_caches leave both as they
\* were; reset_stats and reset_all_stats leave every backend as it was.
C27_CounterFrame ==
    [][/\ \A m \in DOMAIN mgr_objs :
            IF cfg_last'.op \in {"reset_stats", "reset_all_stats"}
            THEN \/ /\ mgr_objs'[m].hit_count = 0
                    /\ mgr_objs'[m].miss_count = 0
                 \/ /\ mgr_objs'[m].hit_count = mgr_objs[m].hit_count
                    /\ mgr_objs'[m].miss_count = mgr_objs[m].miss_count
            ELSE /\ mgr_objs'[m].hit_count >= mgr_objs[m].hit_count
                 /\ mgr_objs'[m].miss_count >= mgr_objs[m].miss_count
       /\ cfg_last'.op = "reset_stats" =>
            \A m \in DOMAIN mgr_objs : mgr_objs[m].name = cfg_last'.name =>
                mgr_objs'[m].hit_count = 0 /\ mgr_objs'[m].miss_count = 0
       /\ cfg_last'.op = "reset_all_stats" =>
            \A n \in DOMAIN instances :
                /\ mgr_objs'[instances[n]].hit_count = 0
                /\ mgr_objs'[instances[n]].miss_count = 0
       /\ cfg_last'.op \in {"set", "delete", "clear", "update_cache_config",
                            "clear_all_caches"} =>
            \A m \in DOMAIN mgr_objs :
                /\ mgr_objs'[m].hit_count = mgr_objs[m].hit_count
                /\ mgr_objs'[m].miss_count = mgr_objs[m].miss_count
       /\ cfg_last'.op \in {"reset_stats", "reset_all_stats"} =>
            backend_objs' = backend_objs
      ]_vars

\* sql_cache has been given a new backend by update_cache_config and still
\* has the hit and the miss it had counted
C27_Witness ==
    /\ cfg_last.op = "update_cache_config" /\ cfg_last.name = "sql_cache"
    /\ cfg_last.raised = "-"
    /\ Len(CfgBackend("sql_cache").cache) = 0
    /\ mgr_objs[instances["sql_cache"]].hit_count = 1
    /\ mgr_objs[instances["sql_cache"]].miss_count = 1

\* C29: initialize_caches with a table returns without raising, and every
\* cache the table names with a positive max_size has a backend of that
\* max_size: a ttl backend when its type is ttl, an lru backend when its type
\* is lru or any other value.
C29_UnknownTypeFallsBack ==
    (cfg_last.op = "initialize_caches" /\ ~cfg_last.was_initialized
            /\ cfg_last.config # None)
        => /\ cfg_last.raised = "-"
           /\ \A i \in 1..Len(cfg_last.config[1]) :
                LET name == cfg_last.config[1][i][1]
                    cache_config == cfg_last.config[1][i][2]
                IN  MaxSizeOf(cache_config) > 0
                    => /\ name \in DOMAIN instances
                       /\ CfgBackend(name).max_size = MaxSizeOf(cache_config)
                       /\ CfgBackend(name).kind =
                            IF TypeOf(cache_config) = "ttl" THEN "ttl" ELSE "lru"

\* a table whose first profile has the type redis and whose second is a ttl
\* profile has been initialized
C29_Witness ==
    /\ cfg_last.op = "initialize_caches" /\ ~cfg_last.was_initialized
    /\ cfg_last.config # None
    /\ Len(cfg_last.config[1]) = 2
    /\ cfg_last.config[1][1][2].type = Some("redis")
    /\ cfg_last.config[1][1][2].max_size = Some(MaxCfgSize)
    /\ cfg_last.config[1][2][2].type = Some("ttl")
    /\ cfg_last.config[1][2][2].max_size = Some(MaxCfgSize)
    /\ CfgBackend(cfg_last.config[1][1][1]).kind = "lru"
    /\ CfgBackend(cfg_last.config[1][1][1]).max_size = MaxCfgSize
    /\ CfgBackend(cfg_last.config[1][2][1]).kind = "ttl"

\* ---------------------------------------------------- decorator claims

\* what every call of the wrapper does: the function is executed exactly when
\* the lookup returned None, a hit returns the cached value, a miss returns
\* the function's result, and a set stores that result under the key
WrapperCore ==
    /\ wrap_last.executed <=> wrap_last.cached = None
    /\ ~wrap_last.executed =>
            /\ wrap_last.ret = wrap_last.cached[1]
            /\ ~wrap_last.set_called
    /\ wrap_last.executed => wrap_last.ret = wrap_last.result
    /\ wrap_last.set_called =>
            /\ Has(CfgBackend(wrap_last.name).cache, wrap_last.key)
            /\ Entry(CfgBackend(wrap_last.name).cache, wrap_last.key).value
                    = wrap_last.result

C31_KeyGeneratorFallback ==
    (wrap_last.op = "call" /\ wrap_last.key_generator = "raises") =>
        /\ wrap_last.key =
                <<IF wrap_last.key_prefix # "" THEN wrap_last.key_prefix
                  ELSE FuncName,
                  ":", generate_hash_key(wrap_last.kwargs)>>
        /\ WrapperCore
        /\ wrap_last.executed => wrap_last.set_called

\* a call whose generator raised has run the function and stored its result
\* under the key made of the prefix
C31_Witness ==
    /\ wrap_last.op = "call" /\ wrap_last.key_generator = "raises"
    /\ wrap_last.key_prefix = "sql" /\ wrap_last.executed
    /\ wrap_last.result = "r1" /\ wrap_last.ret = "r1"
    /\ wrap_last.key[1] = "sql"
    /\ Has(CfgBackend(WrapName).cache, wrap_last.key)
    /\ Entry(CfgBackend(WrapName).cache, wrap_last.key).value = "r1"

\* the lifetime the default configuration gives each cache: "ttl" of
\* schema_cache, "default_ttl" of dataset_info_cache
SchemaCacheTtl == 3600
DatasetInfoDefaultTtl == 3600
ConfiguredLifetime(name) ==
    IF name = "schema_cache" THEN SchemaCacheTtl ELSE DatasetInfoDefaultTtl

\* the call before this step stored its result with ttl=None and this step
\* is a call for the same cache and key made after the cache's lifetime
CalledAfterLifetime ==
    /\ wrap_last.op = "call" /\ wrap_last.set_called /\ wrap_last.ttl = None
    /\ wrap_last'.op = "call" /\ wrap_last'.at >= wrap_last.at
    /\ cfg_calls' = cfg_calls + 1
    /\ wrap_last'.name = wrap_last.name /\ wrap_last'.key = wrap_last.key
    /\ wrap_last'.at > wrap_last.at + ConfiguredLifetime(wrap_last.name)

\* C32: a result the wrapper stored with ttl=None in a named cache is not
\* served from that cache once the cache's configured lifetime has passed:
\* the next call for the key runs the function.
C32_DefaultLifetimeApplies ==
    [][CalledAfterLifetime => wrap_last'.executed]_vars

\* C37: when the backend holds an unexpired None for the key, the manager's
\* get returns None and counts a miss, not a hit, and the wrapper runs the
\* function again and returns its result, although the earlier result was
\* stored.
C37_StoredNoneIsAbsent ==
    [][(wrap_last'.op = "call" /\ cfg_calls' = cfg_calls + 1
            /\ wrap_last'.stored = Some("None"))
        => /\ wrap_last'.cached = None
           /\ wrap_last'.executed
           /\ wrap_last'.ret = wrap_last'.result
           /\ mgr_objs'[instances'[wrap_last'.name]].miss_count
                = mgr_objs[instances[wrap_last'.name]].miss_count + 1
           /\ mgr_objs'[instances'[wrap_last'.name]].hit_count
                = mgr_objs[instances[wrap_last'.name]].hit_count]_vars

\* the function returned None, which was stored without a ttl, and the next
\* call for the key was a second miss that ran the function again
C37_Witness ==
    /\ wrap_last.op = "call" /\ wrap_last.stored = Some("None")
    /\ wrap_last.executed /\ wrap_last.result = "r1" /\ wrap_last.ret = "r1"
    /\ mgr_objs[instances[WrapName]].miss_count = MaxWrapCalls
    /\ mgr_objs[instances[WrapName]].hit_count = 0
    /\ Entry(CfgBackend(WrapName).cache, wrap_last.key).value = "r1"

\* ---------------------------------------------------- concurrency claims

\* C33: while threads call get, set and delete on one backend, no call
\* raises to its caller, and every get that returns gives None or a value
\* that was set.
C33_NoFailureUnderConcurrency ==
    [][\A t \in Threads :
          /\ pc'[t] # "raised"
          /\ (frame[t].op = "get" /\ pc[t] # "idle" /\ pc'[t] = "idle")
                => frame'[t].ret \in {None, Some(1)}]_vars

\* ---------------------------------------------------- context claims, II

\* C34: for every window size, zero and negative ones included,
\* get_conversation_history returns at most max(window_size, 0)
\* conversations, so none when window_size is 0.
C34_WindowBound ==
    ctx_last.op = "history" =>
        /\ Len(ctx_last.ret) <= Max(ctx_last.window, 0)
        /\ ctx_last.window = 0 => ctx_last.ret = <<>>

\* the pairs (user id, tool name) the calls are made for, and the history
\* stored for a pair
KeyPairs == {<<u[1], tn>> : u \in KeyUserArgs, tn \in KeyToolNames}
HistoryOf(cs, pair) ==
    IF ContextKey(pair[1], pair[2]) \in DOMAIN cs
    THEN cs[ContextKey(pair[1], pair[2])].conversations
    ELSE <<>>

\* C35: an add_conversation or reset_memory for one pair (user id, tool
\* name) leaves the history of every other pair as it was, also when the
\* user id or the tool name contains ':'.
C35_PairsNeverShareARow ==
    [][ctx_last'.op \in {"add", "reset"} /\ ctx_last' # ctx_last =>
          \A pair \in KeyPairs :
              pair # <<ctx_last'.user_id, ctx_last'.tool_name>> =>
                  HistoryOf(contexts', pair) = HistoryOf(contexts, pair)]_vars

\* C36: a call made without a user id, or with an empty one, uses an id no
\* earlier call used: the row of its key did not exist before the call and
\* is the one row the call adds, so a history asked for without a user id
\* is empty whatever was added without a user id before.
C36_AnonymousCallsAreFresh ==
    [][anon_count' = anon_count + 1 =>
          /\ ctx_last'.user_id = AnonId(anon_count')
          /\ \A n \in 1..anon_count : ctx_last'.user_id # AnonId(n)
          /\ ctx_last'.key \notin DOMAIN contexts
          /\ DOMAIN contexts' \ DOMAIN contexts = {ctx_last'.key}
          /\ ctx_last'.op = "history" => ctx_last'.ret = <<>>]_vars

\* a conversation was added without a user id and the history then asked for
\* without a user id came back empty, from a second anonymous row
C36_Witness ==
    /\ ctx_last.op = "history" /\ ctx_last.user_id = AnonId(2)
    /\ ctx_last.ret = <<>> /\ anon_count = 2
    /\ ContextKey(AnonId(1), <<"t">>) \in DOMAIN contexts
    /\ Len(contexts[ContextKey(AnonId(1), <<"t">>)].conversations) = 1
    /\ ContextKey(AnonId(2), <<"t">>) \in DOMAIN contexts

\* C40: once every thread has returned from its get, hit_count plus
\* miss_count is the number of gets made.
C40_NoLostCount ==
    (\A t \in Threads : pc[t] = "idle") => hit_count + miss_count = gets

\* ---------------------------------------------------- tool claims

C39_EngineMatchesCredentials ==
    tool_last.op = "sql_executer" =>
        UriPassword(tool_last.engine) = tool_last.config.db_password

====
